---- MODULE Spec2Model ----
(***************************************************************************)
(* State-machine model of the chess engine core of cheers_lib:             *)
(*   - ChessGame (bitboard position, legal_moves, make/unmake, zobrist),   *)
(*   - TranspositionTable (lock-free XOR-verified cache).                  *)
(* A BitBoard (u64) is modelled as the set of its set bits (squares 0..63),*)
(* so |, &, ^ and the shifts are set operations on bit positions.          *)
(***************************************************************************)
EXTENDS Integers, Sequences, FiniteSets, TLC

VARIABLES
    game,           \* the ChessGame
    shadow,         \* the positions before the makes not yet unmade
    expect,         \* the position the last operation is expected to leave
    last_op,        \* the operation run last
    last_move,      \* <<m>> for the move made or unmade last
    panicked,       \* the process has panicked
    table,          \* the TranspositionTable
    calls,          \* per thread: the set or get call it is running
    writes,         \* the <<hash, data>> pairs packed by set calls so far
    committed,      \* per entry index: the threads whose key and data stores came last
    last_call,      \* the last call of a single-threaded user of the table
    slot_history,   \* per entry index: the last set call and the last write
    luts,           \* the LookupTables under generation: the attack table and the magics
    lookup,         \* <<c>> for the last call c of the table generator or of a lookup
    params,         \* EVAL_PARAMS, the parameter tables of the evaluator
    eval            \* <<r>> for the results r of evaluating the position as it is

gamevars == <<game, shadow, expect, last_op, last_move>>
ttvars == <<table, calls, writes, committed, last_call, slot_history>>
evalvars == <<params, eval>>
lutvars == <<luts, lookup>>
vars == <<game, shadow, expect, last_op, last_move, panicked,
          table, calls, writes, committed, last_call, slot_history,
          luts, lookup, params, eval>>

(***************************************************************************)
(* Enumerations (types.rs): discriminants are kept because the code uses   *)
(* them in arithmetic (7 + 56 * color, !color * 7, promotion as u64).      *)
(***************************************************************************)
White == 0
Black == 1
Pawn == 0
Knight == 1
Bishop == 2
Rook == 3
Queen == 4
King == 5
NoPiece == 6
Queenside == 0
Kingside == 1

Colors == {White, Black}
PIECES == <<Pawn, Knight, Bishop, Rook, Queen, King>>
PieceKinds == {Pawn, Knight, Bishop, Rook, Queen, King}

Not(color) == IF color = White THEN Black ELSE White

is_slider(piece) == piece = Bishop \/ piece = Rook \/ piece = Queen

(***************************************************************************)
(* Bitboard primitives.                                                    *)
(***************************************************************************)
Squares == 0..63
NULL == 64
Universe == Squares

rank(sq) == sq \div 8
file(sq) == sq % 8
SquareAt(f, r) == 8 * r + f
offset(sq, dx, dy) == sq + dx + 8 * dy
bitboard(sq) == IF sq \in Squares THEN {sq} ELSE {}
abs_diff(a, b) == IF a >= b THEN a - b ELSE b - a

Shl(bb, n) == {s + n : s \in {x \in bb : x + n <= 63}}
Shr(bb, n) == {s - n : s \in {x \in bb : x - n >= 0}}
Xor(a, b) == (a \ b) \cup (b \ a)
inverse(bb) == Universe \ bb
count_ones(bb) == Cardinality(bb)
first_square(bb) ==
    IF bb = {} THEN NULL ELSE CHOOSE s \in bb : \A t \in bb : s <= t

FileMask(f) == {s \in Squares : file(s) = f}
RankMask(r) == {s \in Squares : rank(s) = r}
A_FILE == FileMask(0)
H_FILE == FileMask(7)
NOT_A_FILE == Universe \ A_FILE
NOT_H_FILE == Universe \ H_FILE
NOT_A_B_FILES == Universe \ (FileMask(0) \cup FileMask(1))
NOT_G_H_FILES == Universe \ (FileMask(6) \cup FileMask(7))
SECOND_RANK == RankMask(1)
FOURTH_RANK == RankMask(3)
FIFTH_RANK == RankMask(4)
SEVENTH_RANK == RankMask(6)

(***************************************************************************)
(* Attack tables.  Knight and king tables follow the generator; the pawn,  *)
(* sliding and BETWEEN tables are the pregenerated tables of section 4.1.  *)
(***************************************************************************)
generate_knight_table(square) ==
    LET knight == {square}
    IN  (Shl(knight, 6) \cap NOT_G_H_FILES)
        \cup (Shl(knight, 10) \cap NOT_A_B_FILES)
        \cup (Shl(knight, 15) \cap NOT_H_FILE)
        \cup (Shl(knight, 17) \cap NOT_A_FILE)
        \cup (Shr(knight, 6) \cap NOT_A_B_FILES)
        \cup (Shr(knight, 10) \cap NOT_G_H_FILES)
        \cup (Shr(knight, 15) \cap NOT_A_FILE)
        \cup (Shr(knight, 17) \cap NOT_H_FILE)

generate_king_table(square) ==
    LET king0 == {square}
        moves0 == (Shl(king0, 1) \cap NOT_A_FILE) \cup (Shr(king0, 1) \cap NOT_H_FILE)
        king1 == king0 \cup moves0
    IN  moves0 \cup Shl(king1, 8) \cup Shr(king1, 8)

KNIGHT_TABLE == [sq \in Squares |-> generate_knight_table(sq)]
KING_TABLE == [sq \in Squares |-> generate_king_table(sq)]

PAWN_ATTACK_TABLES ==
    [color \in Colors |-> [sq \in Squares |->
        IF color = White
        THEN (Shl({sq}, 7) \cap NOT_H_FILE) \cup (Shl({sq}, 9) \cap NOT_A_FILE)
        ELSE (Shr({sq}, 9) \cap NOT_H_FILE) \cup (Shr({sq}, 7) \cap NOT_A_FILE)]]

PAWN_PUSH_ONE_TABLES ==
    [color \in Colors |-> [sq \in Squares |->
        IF color = White THEN Shl({sq}, 8) ELSE Shr({sq}, 8)]]

\* the eight ray directions as (dx, dy); 1..4 orthogonal, 5..8 diagonal
Directions == <<<<0, 1>>, <<0, -1>>, <<1, 0>>, <<-1, 0>>,
                <<1, 1>>, <<-1, 1>>, <<-1, -1>>, <<1, -1>>>>

OnBoard(f, r) == f >= 0 /\ f <= 7 /\ r >= 0 /\ r <= 7

\* squares from sq outward in direction d, nearest first
RayFrom(sq, d) ==
    LET dx == Directions[d][1]
        dy == Directions[d][2]
        n == CHOOSE k \in 0..7 :
                /\ \A i \in 1..k : OnBoard(file(sq) + i * dx, rank(sq) + i * dy)
                /\ ~OnBoard(file(sq) + (k + 1) * dx, rank(sq) + (k + 1) * dy)
    IN  [i \in 1..n |-> SquareAt(file(sq) + i * dx, rank(sq) + i * dy)]

RAYS == [sq \in Squares |-> [d \in 1..8 |-> RayFrom(sq, d)]]

\* the true sliding attack along one ray: up to and including the first blocker
RayAttack(ray, blocking_mask) ==
    {ray[i] : i \in {k \in 1..Len(ray) : \A j \in 1..(k - 1) : ray[j] \notin blocking_mask}}

SlidingAttack(sq, dirs, blocking_mask) ==
    UNION {RayAttack(RAYS[sq][d], blocking_mask) : d \in dirs}

BETWEEN ==
    [a \in Squares |-> [b \in Squares |->
        IF \E d \in 1..8 : \E i \in 1..Len(RAYS[a][d]) : RAYS[a][d][i] = b
        THEN LET d == CHOOSE dd \in 1..8 : \E i \in 1..Len(RAYS[a][dd]) : RAYS[a][dd][i] = b
                 n == CHOOSE i \in 1..Len(RAYS[a][d]) : RAYS[a][d][i] = b
             IN  {RAYS[a][d][j] : j \in 1..(n - 1)}
        ELSE {}]]

lookup_pawn_attack(square, color) == PAWN_ATTACK_TABLES[color][square]
lookup_pawn_push(square, color) == PAWN_PUSH_ONE_TABLES[color][square]
lookup_knight(square) == KNIGHT_TABLE[square]
lookup_king(square) == KING_TABLE[square]
lookup_bishop(square, blocking_mask) == SlidingAttack(square, 5..8, blocking_mask)
lookup_rook(square, blocking_mask) == SlidingAttack(square, 1..4, blocking_mask)
lookup_queen(square, blocking_mask) ==
    lookup_rook(square, blocking_mask) \cup lookup_bishop(square, blocking_mask)
lookup_between(start, target) == BETWEEN[start][target]


(***************************************************************************)
(* Zobrist constants (crate::zobrist).  Every random 64-bit constant is a  *)
(* distinct generator; a hash is the set of generators XORed into it, so   *)
(* xor is symmetric difference.                                            *)
(***************************************************************************)
zobrist_piece(piece, color, square) == {piece * 128 + color * 64 + square}
zobrist_player == {768}
zobrist_castling(rights) ==
    {769 + 2 * cs[1] + cs[2] :
        cs \in {x \in Colors \X {Queenside, Kingside} : rights[x[1]][x[2]]}}
zobrist_enpassent(mask) == {773 + file(first_square(mask))}

(***************************************************************************)
(* ChessGame                                                               *)
(***************************************************************************)
NoCastlingRights == [c \in Colors |-> [s \in {Queenside, Kingside} |-> FALSE]]
EmptyPieceMasks == [c \in Colors |-> [p \in PieceKinds |-> {}]]
EmptyColorMasks == [c \in Colors |-> {}]

\* the struct literal at the top of set_from_fen
DefaultGame ==
    [color_masks |-> EmptyColorMasks,
     combined |-> {},
     piece_masks |-> EmptyPieceMasks,
     current_player |-> White,
     castling_rights |-> NoCastlingRights,
     en_passent_mask |-> {},
     halfmove_clock |-> 0,
     hash |-> {},
     position_history |-> <<>>,
     unmove_history |-> <<>>]

zobrist_hash(g) ==
    LET \* the loops xor one distinct generator per (piece, color, square)
        h1 == UNION {zobrist_piece(pcs[1], pcs[2], pcs[3]) :
                        pcs \in {x \in PieceKinds \X Colors \X Squares :
                                    x[3] \in g.piece_masks[x[2]][x[1]]}}
        h2 == IF g.current_player = Black THEN Xor(h1, zobrist_player) ELSE h1
        h3 == Xor(h2, zobrist_castling(g.castling_rights))
    IN  IF g.en_passent_mask # {} THEN Xor(h3, zobrist_enpassent(g.en_passent_mask)) ELSE h3


(***************************************************************************)
(* set_from_fen.  A FEN string is a sequence of one-character strings.     *)
(***************************************************************************)
RECURSIVE SplitFrom(_, _, _, _)
\* str::split(&['/', ' ']): the fields between separators, empty ones included
SplitFrom(fen, i, cur, acc) ==
    IF i > Len(fen) THEN Append(acc, cur)
    ELSE IF fen[i] = "/" \/ fen[i] = " "
         THEN SplitFrom(fen, i + 1, <<>>, Append(acc, cur))
         ELSE SplitFrom(fen, i + 1, Append(cur, fen[i]), acc)

Split(fen) == SplitFrom(fen, 1, <<>>, <<>>)

PieceLetters == {"n", "N", "b", "B", "r", "R", "q", "Q", "k", "K", "p", "P"}
LetterPiece(chr) ==
    CASE chr \in {"n", "N"} -> Knight
      [] chr \in {"b", "B"} -> Bishop
      [] chr \in {"r", "R"} -> Rook
      [] chr \in {"q", "Q"} -> Queen
      [] chr \in {"k", "K"} -> King
      [] chr \in {"p", "P"} -> Pawn
LetterColor(chr) == IF chr \in {"N", "B", "R", "Q", "K", "P"} THEN White ELSE Black

DigitChars == <<"0", "1", "2", "3", "4", "5", "6", "7", "8", "9">>
IsDigit(chr) == \E d \in 1..10 : DigitChars[d] = chr
to_digit(chr) == (CHOOSE d \in 1..10 : DigitChars[d] = chr) - 1

RECURSIVE ParseRank(_, _, _, _)
\* the inner loop over the characters of one rank: st = [index, piece_masks, color_masks]
ParseRank(line, k, index, g) ==
    IF k > Len(line) THEN g
    ELSE LET chr == line[k]
         IN  IF chr \in PieceLetters
             THEN LET c == LetterColor(chr)
                      p == LetterPiece(chr)
                      \* 1 << index of a build without overflow checks: the
                      \* shift amount is taken modulo 64
                      g1 == [g EXCEPT !.piece_masks[c][p] = @ \cup bitboard(index % 64),
                                      !.color_masks[c] = @ \cup bitboard(index % 64)]
                  IN  ParseRank(line, k + 1, index + 1, g1)
             ELSE IF IsDigit(chr) /\ to_digit(chr) >= 1 /\ to_digit(chr) <= 8
                  THEN ParseRank(line, k + 1, index + (to_digit(chr) - 1) + 1, g)
                  ELSE ParseRank(line, k + 1, index + 1, g)

RECURSIVE RankShiftOverflows(_, _, _)
\* whether the loop over one rank reaches `1 << index` with index >= 64, where a
\* build with overflow checks panics
RankShiftOverflows(line, k, index) ==
    IF k > Len(line) THEN FALSE
    ELSE LET chr == line[k]
         IN  IF chr \in PieceLetters
             THEN index >= 64 \/ RankShiftOverflows(line, k + 1, index + 1)
             ELSE IF IsDigit(chr) /\ to_digit(chr) >= 1 /\ to_digit(chr) <= 8
                  THEN RankShiftOverflows(line, k + 1, index + (to_digit(chr) - 1) + 1)
                  ELSE RankShiftOverflows(line, k + 1, index + 1)

\* whether set_from_fen(fen) shifts by 64 or more in one of the first 8 fields
ShiftOverflows(fen_string) ==
    \E i \in 0..7 : /\ i < Len(Split(fen_string))
                    /\ RankShiftOverflows(Split(fen_string)[i + 1], 1, 56 - i * 8)

RECURSIVE ParseBoard(_, _, _)
\* for (i, line) in lines.clone().take(8).enumerate()
ParseBoard(lines, i, g) ==
    IF i >= 8 \/ i >= Len(lines) THEN g
    ELSE ParseBoard(lines, i + 1, ParseRank(lines[i + 1], 1, 56 - i * 8, g))

RECURSIVE ParseCastling(_, _, _)
\* try_for_each over the castling letters: [ok, rights]
ParseCastling(field, k, rights) ==
    IF k > Len(field) THEN [ok |-> TRUE, rights |-> rights]
    ELSE CASE field[k] = "K" -> ParseCastling(field, k + 1, [rights EXCEPT ![White][Kingside] = TRUE])
           [] field[k] = "k" -> ParseCastling(field, k + 1, [rights EXCEPT ![Black][Kingside] = TRUE])
           [] field[k] = "Q" -> ParseCastling(field, k + 1, [rights EXCEPT ![White][Queenside] = TRUE])
           [] field[k] = "q" -> ParseCastling(field, k + 1, [rights EXCEPT ![Black][Queenside] = TRUE])
           [] OTHER -> [ok |-> FALSE, rights |-> rights]

FileChars == <<"a", "b", "c", "d", "e", "f", "g", "h">>

\* the en-passant field: [ok, mask]
ParseEnPassent(field) ==
    IF field = <<"-">> THEN [ok |-> TRUE, mask |-> {}]
    ELSE IF Len(field) < 1 \/ ~(\E f \in 1..8 : FileChars[f] = field[1])
         THEN [ok |-> FALSE, mask |-> {}]
         ELSE IF Len(field) < 2 \/ ~(IsDigit(field[2]) /\ to_digit(field[2]) \in 1..8)
              THEN [ok |-> FALSE, mask |-> {}]
              ELSE [ok |-> TRUE,
                    mask |-> bitboard(((CHOOSE f \in 1..8 : FileChars[f] = field[1]) - 1)
                                      + 8 * (to_digit(field[2]) - 1))]

RECURSIVE ParseNat(_, _, _)
\* decimal value of the digits, capped above u8::MAX so that TLC's integers do not overflow
ParseNat(field, k, acc) ==
    IF k > Len(field) THEN acc
    ELSE ParseNat(field, k + 1, IF acc > 255 THEN acc ELSE acc * 10 + to_digit(field[k]))

\* str::parse::<u8>: an optional '+', then at least one digit, value <= 255
ParseU8(field) ==
    LET digits == IF Len(field) >= 1 /\ field[1] = "+" THEN Tail(field) ELSE field
    IN  IF Len(digits) = 0 \/ \E k \in 1..Len(digits) : ~IsDigit(digits[k])
        THEN [ok |-> FALSE, value |-> 0]
        ELSE IF ParseNat(digits, 1, 0) > 255
             THEN [ok |-> FALSE, value |-> 0]
             ELSE [ok |-> TRUE, value |-> ParseNat(digits, 1, 0)]

\* set_from_fen: [ok |-> whether Ok(()) is returned, game |-> the position it leaves]
set_from_fen(fen) ==
    LET lines == Split(fen)
        g0 == ParseBoard(lines, 0, DefaultGame)
    IN  IF Len(lines) < 9 \/ lines[9] \notin {<<"w">>, <<"b">>}
        THEN [ok |-> FALSE, game |-> g0]
        ELSE
        LET g1 == [g0 EXCEPT !.current_player = IF lines[9] = <<"w">> THEN White ELSE Black]
        IN  IF Len(lines) < 10 THEN [ok |-> FALSE, game |-> g1]
            ELSE
            LET castle == IF lines[10] = <<"-">>
                          THEN [ok |-> TRUE, rights |-> NoCastlingRights]
                          ELSE ParseCastling(lines[10], 1, NoCastlingRights)
                g2 == [g1 EXCEPT !.castling_rights = castle.rights]
            IN  IF ~castle.ok \/ Len(lines) < 11 THEN [ok |-> FALSE, game |-> g2]
                ELSE
                LET ep == ParseEnPassent(lines[11])
                    g3 == [g2 EXCEPT !.en_passent_mask = ep.mask]
                IN  IF ~ep.ok \/ Len(lines) < 12 THEN [ok |-> FALSE, game |-> g3]
                    ELSE
                    LET clock == ParseU8(lines[12])
                    IN  IF ~clock.ok THEN [ok |-> FALSE, game |-> g3]
                        ELSE
                        LET g4 == [g3 EXCEPT !.halfmove_clock = clock.value,
                                             !.combined = g3.color_masks[White]
                                                            \cup g3.color_masks[Black]]
                        IN  [ok |-> TRUE, game |-> [g4 EXCEPT !.hash = zobrist_hash(g4)]]


(***************************************************************************)
(* Board queries                                                           *)
(***************************************************************************)
piece_at(g, square) ==
    LET test == bitboard(square)
        both(p) == g.piece_masks[White][p] \cup g.piece_masks[Black][p]
    IN  IF g.combined \cap test = {} THEN NoPiece
        ELSE IF (both(Pawn) \cup both(Knight) \cup both(Bishop)) \cap test # {}
             THEN IF both(Pawn) \cap test # {} THEN Pawn
                  ELSE IF both(Knight) \cap test # {} THEN Knight
                  ELSE Bishop
             ELSE IF both(Rook) \cap test # {} THEN Rook
             ELSE IF both(Queen) \cap test # {} THEN Queen
             ELSE King

color_at(g, square) ==
    IF g.color_masks[White] \cap bitboard(square) # {} THEN White ELSE Black

pawn_attacks(g, color) ==
    LET pawns == g.piece_masks[color][Pawn]
    IN  IF color = White
        THEN (Shl(pawns, 7) \cap NOT_H_FILE) \cup (Shl(pawns, 9) \cap NOT_A_FILE)
        ELSE (Shr(pawns, 9) \cap NOT_H_FILE) \cup (Shr(pawns, 7) \cap NOT_A_FILE)

knight_attacks(g, color) ==
    UNION {lookup_knight(i) : i \in g.piece_masks[color][Knight]}

bishop_attacks(g, color, blocking_mask) ==
    UNION {lookup_bishop(i, blocking_mask) : i \in g.piece_masks[color][Bishop]}

rook_attacks(g, color, blocking_mask) ==
    UNION {lookup_rook(i, blocking_mask) : i \in g.piece_masks[color][Rook]}

queen_attacks(g, color, blocking_mask) ==
    UNION {lookup_queen(i, blocking_mask) : i \in g.piece_masks[color][Queen]}

king_attacks(g, color) == lookup_king(first_square(g.piece_masks[color][King]))

all_attacks(g, color, blocking_mask) ==
    pawn_attacks(g, color)
        \cup knight_attacks(g, color)
        \cup king_attacks(g, color)
        \cup bishop_attacks(g, color, blocking_mask)
        \cup rook_attacks(g, color, blocking_mask)
        \cup queen_attacks(g, color, blocking_mask)

in_check(g, color) ==
    all_attacks(g, Not(color), g.combined) \cap g.piece_masks[color][King] # {}

(***************************************************************************)
(* fen: the position written as a FEN string                               *)
(***************************************************************************)
\* char::from_digit(n, 10)
from_digit(n) == DigitChars[n + 1]

RECURSIVE to_string(_)
\* the decimal digits of an unsigned integer
to_string(n) == IF n < 10 THEN <<from_digit(n)>> ELSE Append(to_string(n \div 10), from_digit(n % 10))

\* coord(sq) of crate::moves: file letter and rank digit
coord(sq) == <<FileChars[file(sq) + 1], from_digit(rank(sq) + 1)>>

\* lines 233-244: the letter of a piece, upper case for White
FenLetter(piece, color) ==
    IF color = White THEN <<"P", "N", "B", "R", "Q", "K">>[piece + 1]
    ELSE <<"p", "n", "b", "r", "q", "k">>[piece + 1]

RECURSIVE FenRank(_, _, _, _, _)
\* lines 221-251: the loop over the files of one rank
FenRank(g, r, f, empty_counter, acc) ==
    IF f > 7
    THEN IF empty_counter # 0 THEN Append(acc, from_digit(empty_counter)) ELSE acc
    ELSE LET square == 8 * r + f
             piece == piece_at(g, square)
         IN  IF piece = NoPiece THEN FenRank(g, r, f + 1, empty_counter + 1, acc)
             ELSE FenRank(g, r, f + 1, 0,
                          Append(IF empty_counter # 0
                                 THEN Append(acc, from_digit(empty_counter)) ELSE acc,
                                 FenLetter(piece, color_at(g, square))))

RECURSIVE FenBoard(_, _, _)
\* lines 220-253: for rank in (0..8).rev(), each rank followed by '/'; what a
\* rank pushes onto the string does not depend on what is in it already
FenBoard(g, r, acc) ==
    IF r < 0 THEN acc
    ELSE FenBoard(g, r - 1, acc \o FenRank(g, r, 0, 0, << >>) \o <<"/">>)

\* lines 267-281: the castling field
FenCastling(g) ==
    (IF g.castling_rights[White][Kingside] THEN <<"K">> ELSE <<>>)
    \o (IF g.castling_rights[White][Queenside] THEN <<"Q">> ELSE <<>>)
    \o (IF g.castling_rights[Black][Kingside] THEN <<"k">> ELSE <<>>)
    \o (IF g.castling_rights[Black][Kingside] THEN <<"q">> ELSE <<>>)
    \o (IF g.castling_rights = NoCastlingRights THEN <<"-">> ELSE <<>>)

fen(g) ==
    \* fen.pop() removes the trailing '/'
    SubSeq(FenBoard(g, 7, <<>>), 1, Len(FenBoard(g, 7, <<>>)) - 1) \o <<" ">>
    \o <<IF g.current_player = White THEN "w" ELSE "b">> \o <<" ">>
    \o FenCastling(g) \o <<" ">>
    \o (IF first_square(g.en_passent_mask) = NULL THEN <<"-">>
        ELSE coord(first_square(g.en_passent_mask))) \o <<" ">>
    \o to_string(g.halfmove_clock) \o <<" ">>
    \o to_string(Len(g.position_history) \div 2)

(***************************************************************************)
(* The evaluator (chessgame/evaluate.rs).  i32 arithmetic: the scores and  *)
(* counts stay far from the 32-bit limits, so + and * are exact; / rounds  *)
(* toward zero.                                                            *)
(***************************************************************************)
\* a / b of two i32 with b > 0: the quotient rounded toward zero
div_i32(a, b) == IF a >= 0 THEN a \div b ELSE -((-a) \div b)

game_phase(g) ==
    LET knight_phase == 1
        bishop_phase == 1
        rook_phase == 2
        queen_phase == 4
        total_phase == knight_phase * 4 + bishop_phase * 4 + rook_phase * 4 + queen_phase * 2
        both(piece) == g.piece_masks[White][piece] \cup g.piece_masks[Black][piece]
        phase == count_ones(both(Knight)) * knight_phase
                 + count_ones(both(Bishop)) * bishop_phase
                 + count_ones(both(Rook)) * rook_phase
                 + count_ones(both(Queen)) * queen_phase
    IN  div_i32(256 * (total_phase - phase), total_phase)

\* GamePhase (chessgame/eval_params): the index of the midgame and endgame value
Midgame == 0
Endgame == 1

\* one parameter of the evaluator: a value for table k, entry i, game phase ph
ParamValue(seed, k, i, ph) == ((seed * 13 + k * 29 + i * 7 + ph * 17 + k * i) % 23) - 11

\* EvalParams: the tables evaluate.rs reads, filled from a seed
EvalParamsOf(seed) ==
    LET pair(k, i) == [ph \in {Midgame, Endgame} |-> ParamValue(seed, k, i, ph)]
        rows(k, n) == [i \in 0..(n - 1) |-> pair(k, i)]
    IN  [piece_values |-> [ph \in {Midgame, Endgame} |->
                             [piece \in PieceKinds |-> 100 + 50 * piece * (1 + ph) + seed]],
         piece_tables |-> [ph \in {Midgame, Endgame} |->
                             [piece \in PieceKinds |->
                                [sq \in Squares |-> ParamValue(seed, piece, sq, ph)]]],
         knight_behind_pawn |-> pair(6, 0),
         knight_king_distance |-> rows(7, 4),
         knight_outpost |-> rows(8, 2),
         knight_mobility |-> rows(9, 9),
         bishop_behind_pawn |-> pair(10, 0),
         bishop_king_distance |-> rows(11, 4),
         bishop_outpost |-> rows(12, 2),
         bishop_pair |-> pair(13, 0),
         bishop_long_diagonal |-> pair(14, 0),
         bishop_mobility |-> rows(15, 14),
         rook_on_seventh |-> pair(16, 0),
         rook_open_file |-> rows(17, 2),
         rook_mobility |-> rows(18, 15),
         queen_discovery_risk |-> pair(19, 0),
         queen_mobility |-> rows(20, 28),
         passed_pawn |-> pair(21, 0),
         double_pawn |-> pair(22, 0),
         isolated_pawn |-> rows(23, 8)]

\* EvalTrace::default(): one counter per term and colour, all zero
DefaultTrace ==
    LET count == [c \in Colors |-> 0]
        counts(n) == [i \in 0..(n - 1) |-> count]
    IN  [turn |-> 0,
         pawn_count |-> count, knight_count |-> count, bishop_count |-> count,
         rook_count |-> count, queen_count |-> count,
         pawn_placement |-> counts(64), knight_placement |-> counts(64),
         bishop_placement |-> counts(64), rook_placement |-> counts(64),
         queen_placement |-> counts(64), king_placement |-> counts(64),
         knights_behind_pawns |-> count, knight_king_distance |-> counts(4),
         knight_outposts |-> counts(2), knight_mobility |-> counts(9),
         bishops_behind_pawns |-> count, bishop_king_distance |-> counts(4),
         bishop_outposts |-> counts(2), bishop_pair |-> count,
         bishop_long_diagonals |-> count, bishop_mobility |-> counts(14),
         rooks_on_seventh |-> count, rook_open_files |-> counts(2),
         rook_mobility |-> counts(15),
         queen_discovery_risks |-> count, queen_mobility |-> counts(28),
         passed_pawns |-> count, double_pawns |-> count, isolated_pawns |-> counts(8)]

\* <()>::default(): the no-op trace target
NoTrace == << >>

\* TraceTarget::term: the tracing target runs the closure, the unit target drops it
term(tracing, trace, Traced(_)) == IF tracing THEN Traced(trace) ELSE trace

\* relative_board_index: the square seen from the colour's side (s ^ 56 for Black)
relative_board_index(sq, color) == IF color = White THEN sq ELSE SquareAt(file(sq), 7 - rank(sq))

LIGHT_SQUARES == {s \in Squares : s % 2 = 0}
DARK_SQUARES == {s \in Squares : s % 2 = 1}
LONG_DIAGONALS == {s \in Squares : file(s) = rank(s) \/ file(s) = 7 - rank(s)}

adjacent_files(f) ==
    (IF f >= 1 THEN FileMask(f - 1) ELSE {}) \cup (IF f <= 6 THEN FileMask(f + 1) ELSE {})

pawn_front_spans(g, color) ==
    LET pawns == g.piece_masks[color][Pawn]
        s8 == IF color = White THEN pawns \cup Shl(pawns, 8) ELSE pawns \cup Shr(pawns, 8)
        s16 == IF color = White THEN s8 \cup Shl(s8, 16) ELSE s8 \cup Shr(s8, 16)
    IN  IF color = White THEN s16 \cup Shl(s16, 32) ELSE s16 \cup Shr(s16, 32)

pawn_attack_spans(g, color) ==
    LET attacks == pawn_attacks(g, color)
        s8 == IF color = White THEN attacks \cup Shl(attacks, 8) ELSE attacks \cup Shr(attacks, 8)
        s16 == IF color = White THEN s8 \cup Shl(s8, 16) ELSE s8 \cup Shr(s8, 16)
    IN  IF color = White THEN s16 \cup Shl(s16, 32) ELSE s16 \cup Shr(s16, 32)

discovered_attacks(g, square, color) ==
    LET rook_attacks_ == lookup_rook(square, g.combined)
        bishop_attacks_ == lookup_bishop(square, g.combined)
        rooks == g.piece_masks[Not(color)][Rook] \cap inverse(rook_attacks_)
        bishops == g.piece_masks[Not(color)][Bishop] \cap inverse(bishop_attacks_)
    IN  (rooks \cap lookup_rook(square, g.combined \cap inverse(rook_attacks_)))
        \cup (bishops \cap lookup_bishop(square, g.combined \cap inverse(bishop_attacks_)))

mobility_area(g, color) ==
    LET blocked_pawns ==
            IF color = White
            THEN g.piece_masks[White][Pawn] \cap Shr(g.piece_masks[Black][Pawn], 8)
            ELSE g.piece_masks[Black][Pawn] \cap Shl(g.piece_masks[White][Pawn], 8)
    IN  inverse(pawn_attacks(g, Not(color)) \cup blocked_pawns \cup g.piece_masks[color][King])

\* EvalInfo as EvalContext::evaluate initialises it
EvalInfo(g) ==
    [mobility_area |-> [c \in Colors |-> mobility_area(g, c)],
     behind_pawns |-> [c \in Colors |-> IF c = White THEN Shr(g.piece_masks[White][Pawn], 8)
                                                    ELSE Shl(g.piece_masks[Black][Pawn], 8)],
     outposts |-> [c \in Colors |-> IF c = White THEN inverse(pawn_attack_spans(g, Black))
                                                ELSE inverse(pawn_attacks(g, White))],
     seventh_rank |-> [c \in Colors |-> IF c = White THEN SEVENTH_RANK ELSE SECOND_RANK]]

\* eval.mg += mg; eval.eg += eg, and the trace as the term leaves it
AddTerm(acc, mg, eg, tracing, Traced(_)) ==
    [mg |-> acc.mg + mg, eg |-> acc.eg + eg, trace |-> term(tracing, acc.trace, Traced)]

\* the king distance of the knight and bishop terms
KingDistance(g, color, sq) ==
    LET king == first_square(g.piece_masks[color][King])
    IN  IF abs_diff(king % 8, sq % 8) >= abs_diff(king \div 8, sq \div 8)
        THEN abs_diff(king % 8, sq % 8) ELSE abs_diff(king \div 8, sq \div 8)

\* for square in squares { body }: the squares are visited from bit 0 up
RECURSIVE ForEachSquare(_, _, _)
ForEachSquare(Body(_, _), squares, acc) ==
    IF squares = {} THEN acc
    ELSE ForEachSquare(Body, squares \ {first_square(squares)}, Body(acc, first_square(squares)))

evaluate_knights(g, trace, tracing, color, info, p) ==
    LET knights == g.piece_masks[color][Knight]
        \* material value
        count == count_ones(knights)
        material == AddTerm([mg |-> 0, eg |-> 0, trace |-> trace],
                            p.piece_values[Midgame][Knight] * count,
                            p.piece_values[Endgame][Knight] * count,
                            tracing, LAMBDA t : [t EXCEPT !.knight_count[color] = count])
        \* knights behind pawns
        knights_behind_pawns == count_ones(knights \cap info.behind_pawns[color])
        behind == AddTerm(material,
                          p.knight_behind_pawn[Midgame] * knights_behind_pawns,
                          p.knight_behind_pawn[Endgame] * knights_behind_pawns,
                          tracing, LAMBDA t : [t EXCEPT !.knights_behind_pawns[color] = knights_behind_pawns])
        Body(acc, knight) ==
            LET relative_knight == relative_board_index(knight, color)
                placement == AddTerm(acc,
                                 p.piece_tables[Midgame][Knight][relative_knight],
                                 p.piece_tables[Endgame][Knight][relative_knight],
                                 tracing, LAMBDA t : [t EXCEPT !.knight_placement[relative_knight][color] = @ + 1])
                distance == KingDistance(g, color, knight)
                king_distance ==
                    IF distance >= 4
                    THEN AddTerm(placement,
                             p.knight_king_distance[distance - 4][Midgame],
                             p.knight_king_distance[distance - 4][Endgame],
                             tracing, LAMBDA t : [t EXCEPT !.knight_king_distance[distance - 4][color] = @ + 1])
                    ELSE placement
                defended == IF lookup_pawn_attack(knight, Not(color)) \cap g.piece_masks[color][Pawn] # {}
                            THEN 1 ELSE 0
                outpost ==
                    IF bitboard(knight) \cap info.outposts[color] # {}
                    THEN AddTerm(king_distance,
                             p.knight_outpost[defended][Midgame],
                             p.knight_outpost[defended][Endgame],
                             tracing, LAMBDA t : [t EXCEPT !.knight_outposts[defended][color] = @ + 1])
                    ELSE king_distance
                mobility == count_ones(lookup_knight(knight) \cap info.mobility_area[color])
            IN  AddTerm(outpost,
                    p.knight_mobility[mobility][Midgame],
                    p.knight_mobility[mobility][Endgame],
                    tracing, LAMBDA t : [t EXCEPT !.knight_mobility[mobility][color] = @ + 1])
    IN  ForEachSquare(Body, knights, behind)

evaluate_bishops(g, trace, tracing, color, info, p) ==
    LET bishops == g.piece_masks[color][Bishop]
        \* material value
        count == count_ones(bishops)
        material == AddTerm([mg |-> 0, eg |-> 0, trace |-> trace],
                            p.piece_values[Midgame][Bishop] * count,
                            p.piece_values[Endgame][Bishop] * count,
                            tracing, LAMBDA t : [t EXCEPT !.bishop_count[color] = count])
        \* bishops behind pawns
        bishops_behind_pawns == count_ones(bishops \cap info.behind_pawns[color])
        behind == AddTerm(material,
                          p.bishop_behind_pawn[Midgame] * bishops_behind_pawns,
                          p.bishop_behind_pawn[Endgame] * bishops_behind_pawns,
                          tracing, LAMBDA t : [t EXCEPT !.bishops_behind_pawns[color] = bishops_behind_pawns])
        \* bishop pair
        pair == IF count_ones(bishops \cap LIGHT_SQUARES) >= 1 /\ count_ones(bishops \cap DARK_SQUARES) >= 1
                THEN AddTerm(behind, p.bishop_pair[Midgame], p.bishop_pair[Endgame],
                         tracing, LAMBDA t : [t EXCEPT !.bishop_pair[color] = @ + 1])
                ELSE behind
        \* long diagonals
        bishop_long_diagonals == count_ones(bishops \cap LONG_DIAGONALS)
        diagonals == AddTerm(pair,
                         p.bishop_long_diagonal[Midgame] * bishop_long_diagonals,
                         p.bishop_long_diagonal[Endgame] * bishop_long_diagonals,
                         tracing, LAMBDA t : [t EXCEPT !.bishop_long_diagonals[color] = bishop_long_diagonals])
        Body(acc, bishop) ==
            LET relative_bishop == relative_board_index(bishop, color)
                placement == AddTerm(acc,
                                 p.piece_tables[Midgame][Bishop][relative_bishop],
                                 p.piece_tables[Endgame][Bishop][relative_bishop],
                                 tracing, LAMBDA t : [t EXCEPT !.bishop_placement[relative_bishop][color] = @ + 1])
                distance == KingDistance(g, color, bishop)
                king_distance ==
                    IF distance >= 4
                    THEN AddTerm(placement,
                             p.bishop_king_distance[distance - 4][Midgame],
                             p.bishop_king_distance[distance - 4][Endgame],
                             tracing, LAMBDA t : [t EXCEPT !.bishop_king_distance[distance - 4][color] = @ + 1])
                    ELSE placement
                defended == IF lookup_pawn_attack(bishop, Not(color)) \cap g.piece_masks[color][Pawn] # {}
                            THEN 1 ELSE 0
                outpost ==
                    IF bitboard(bishop) \cap info.outposts[color] # {}
                    THEN AddTerm(king_distance,
                             p.bishop_outpost[defended][Midgame],
                             p.bishop_outpost[defended][Endgame],
                             tracing, LAMBDA t : [t EXCEPT !.bishop_outposts[defended][color] = @ + 1])
                    ELSE king_distance
                mobility == count_ones(lookup_bishop(bishop, g.combined) \cap info.mobility_area[color])
            IN  AddTerm(outpost,
                    p.bishop_mobility[mobility][Midgame],
                    p.bishop_mobility[mobility][Endgame],
                    tracing, LAMBDA t : [t EXCEPT !.bishop_mobility[mobility][color] = @ + 1])
    IN  ForEachSquare(Body, bishops, diagonals)

\* the rooks-on-seventh term of evaluate_rooks: both additions go to eval.mg
RooksOnSeventh(g, acc, tracing, color, info, p) ==
    LET rooks_on_seventh == count_ones(g.piece_masks[color][Rook] \cap info.seventh_rank[color])
    IN  AddTerm(acc,
            p.rook_on_seventh[Midgame] * rooks_on_seventh
                + p.rook_on_seventh[Endgame] * rooks_on_seventh,
            0,
            tracing, LAMBDA t : [t EXCEPT !.rooks_on_seventh[color] = rooks_on_seventh])

evaluate_rooks(g, trace, tracing, color, info, p) ==
    LET rooks == g.piece_masks[color][Rook]
        \* material value
        count == count_ones(rooks)
        material == AddTerm([mg |-> 0, eg |-> 0, trace |-> trace],
                            p.piece_values[Midgame][Rook] * count,
                            p.piece_values[Endgame][Rook] * count,
                            tracing, LAMBDA t : [t EXCEPT !.rook_count[color] = count])
        seventh == RooksOnSeventh(g, material, tracing, color, info, p)
        Body(acc, rook) ==
            LET relative_rook == relative_board_index(rook, color)
                placement == AddTerm(acc,
                                 p.piece_tables[Midgame][Rook][relative_rook],
                                 p.piece_tables[Endgame][Rook][relative_rook],
                                 tracing, LAMBDA t : [t EXCEPT !.rook_placement[relative_rook][color] = @ + 1])
                open == IF g.piece_masks[Not(color)][Pawn] \cap FileMask(rook % 8) = {} THEN 1 ELSE 0
                open_file ==
                    IF g.piece_masks[color][Pawn] \cap FileMask(rook % 8) = {}
                    THEN AddTerm(placement,
                             p.rook_open_file[open][Midgame],
                             p.rook_open_file[open][Endgame],
                             tracing, LAMBDA t : [t EXCEPT !.rook_open_files[open][color] = @ + 1])
                    ELSE placement
                mobility == count_ones(lookup_rook(rook, g.combined) \cap info.mobility_area[color])
            IN  AddTerm(open_file,
                    p.rook_mobility[mobility][Midgame],
                    p.rook_mobility[mobility][Endgame],
                    tracing, LAMBDA t : [t EXCEPT !.rook_mobility[mobility][color] = @ + 1])
    IN  ForEachSquare(Body, rooks, seventh)

evaluate_queens(g, trace, tracing, color, info, p) ==
    LET queens == g.piece_masks[color][Queen]
        \* material value
        count == count_ones(queens)
        material == AddTerm([mg |-> 0, eg |-> 0, trace |-> trace],
                            p.piece_values[Midgame][Queen] * count,
                            p.piece_values[Endgame][Queen] * count,
                            tracing, LAMBDA t : [t EXCEPT !.queen_count[color] = count])
        Body(acc, queen) ==
            LET relative_queen == relative_board_index(queen, color)
                placement == AddTerm(acc,
                                 p.piece_tables[Midgame][Queen][relative_queen],
                                 p.piece_tables[Endgame][Queen][relative_queen],
                                 tracing, LAMBDA t : [t EXCEPT !.queen_placement[relative_queen][color] = @ + 1])
                discovery ==
                    IF discovered_attacks(g, queen, color) # {}
                    THEN AddTerm(placement,
                             p.queen_discovery_risk[Midgame],
                             p.queen_discovery_risk[Endgame],
                             tracing, LAMBDA t : [t EXCEPT !.queen_discovery_risks[color] = @ + 1])
                    ELSE placement
                mobility == count_ones(lookup_queen(queen, g.combined) \cap info.mobility_area[color])
            IN  AddTerm(discovery,
                    p.queen_mobility[mobility][Midgame],
                    p.queen_mobility[mobility][Endgame],
                    tracing, LAMBDA t : [t EXCEPT !.queen_mobility[mobility][color] = @ + 1])
    IN  ForEachSquare(Body, queens, material)

\* evaluate_king with the additions to eval moved into the trace closure
evaluate_king_scores_in_trace(g, trace, tracing, color, info, p) ==
    LET king == relative_board_index(first_square(g.piece_masks[color][King]), color)
    IN  IF tracing
        THEN AddTerm([mg |-> 0, eg |-> 0, trace |-> trace],
                 p.piece_tables[Midgame][King][king],
                 p.piece_tables[Endgame][King][king],
                 tracing, LAMBDA t : [t EXCEPT !.king_placement[king][color] = @ + 1])
        ELSE [mg |-> 0, eg |-> 0, trace |-> trace]

evaluate_king(g, trace, tracing, color, info, p) ==
    LET king == relative_board_index(first_square(g.piece_masks[color][King]), color)
    IN  AddTerm([mg |-> 0, eg |-> 0, trace |-> trace],
            p.piece_tables[Midgame][King][king],
            p.piece_tables[Endgame][King][king],
            tracing, LAMBDA t : [t EXCEPT !.king_placement[king][color] = @ + 1])

evaluate_pawns(g, trace, tracing, color, info, p) ==
    LET pawns == g.piece_masks[color][Pawn]
        \* material value
        count == count_ones(pawns)
        material == AddTerm([mg |-> 0, eg |-> 0, trace |-> trace],
                            p.piece_values[Midgame][Pawn] * count,
                            p.piece_values[Endgame][Pawn] * count,
                            tracing, LAMBDA t : [t EXCEPT !.pawn_count[color] = count])
        \* passed pawns
        front_spans == pawn_front_spans(g, Not(color))
        all_front_spans == front_spans \cup Shl(front_spans \cap NOT_H_FILE, 1)
                           \cup Shr(front_spans \cap NOT_A_FILE, 1)
        passers == count_ones(pawns \cap inverse(all_front_spans))
        passed == AddTerm(material,
                      p.passed_pawn[Midgame] * passers,
                      p.passed_pawn[Endgame] * passers,
                      tracing, LAMBDA t : [t EXCEPT !.passed_pawns[color] = passers])
        \* unsupported double pawns: >> binds tighter than &, so the second operand
        \* is pawns & (NOT_A_FILE >> 1)
        shifted == IF color = White THEN Shr(pawns, 8) ELSE Shl(pawns, 8)
        double_pawns ==
            count_ones(pawns \cap shifted
                       \cap inverse(Shl(pawns \cap NOT_H_FILE, 1) \cup (pawns \cap Shr(NOT_A_FILE, 1))))
        doubled == AddTerm(passed,
                       p.double_pawn[Midgame] * double_pawns,
                       p.double_pawn[Endgame] * double_pawns,
                       tracing, LAMBDA t : [t EXCEPT !.double_pawns[color] = double_pawns])
        Body(acc, pawn) ==
            LET relative_pawn == relative_board_index(pawn, color)
                placement == AddTerm(acc,
                                 p.piece_tables[Midgame][Pawn][relative_pawn],
                                 p.piece_tables[Endgame][Pawn][relative_pawn],
                                 tracing, LAMBDA t : [t EXCEPT !.pawn_placement[relative_pawn][color] = @ + 1])
                board == bitboard(pawn)
                attacks == IF color = White
                           THEN Shl(board \cap NOT_H_FILE, 9) \cup Shl(board \cap NOT_A_FILE, 7)
                           ELSE Shr(board \cap NOT_A_FILE, 9) \cup Shr(board \cap NOT_H_FILE, 7)
                neighbors == pawns \cap adjacent_files(pawn % 8)
            IN  \* isolated pawns
                IF attacks = {} /\ neighbors = {}
                THEN AddTerm(placement,
                         p.isolated_pawn[pawn % 8][Midgame],
                         p.isolated_pawn[pawn % 8][Endgame],
                         tracing, LAMBDA t : [t EXCEPT !.isolated_pawns[pawn % 8][color] = @ + 1])
                ELSE placement
    IN  ForEachSquare(Body, pawns, doubled)

\* eval += evaluate_x(current_player) - evaluate_x(!current_player): the two
\* calls run in this order on the one trace
AddDifference(g, acc, tracing, info, p, evaluate_x(_, _, _, _, _, _)) ==
    LET own == evaluate_x(g, acc.trace, tracing, g.current_player, info, p)
        other == evaluate_x(g, own.trace, tracing, Not(g.current_player), info, p)
    IN  [mg |-> acc.mg + (own.mg - other.mg), eg |-> acc.eg + (own.eg - other.eg),
         trace |-> other.trace]

\* score = ((eval.mg * (256 - phase)) + (eval.eg * phase)) / 256, with the trace
Tapered(acc, phase) ==
    [score |-> div_i32((acc.mg * (256 - phase)) + (acc.eg * phase), 256), trace |-> acc.trace]

\* ChessGame::evaluate::<T> with EvalContext::evaluate: T = EvalTrace when
\* tracing, T = () when not; the result is (score, trace).  The six statements
\* eval += evaluate_x(..) - evaluate_x(..) run in the order knights, bishops,
\* rooks, queens, pawns, king, each on the eval and the trace the one before left
evaluate(g, p, tracing) ==
    LET trace == IF tracing THEN DefaultTrace ELSE NoTrace
        turn == [mg |-> 0, eg |-> 0,
                 trace |-> term(tracing, trace, LAMBDA t : [t EXCEPT !.turn = g.current_player])]
        info == EvalInfo(g)
    IN  Tapered(
            AddDifference(g,
                AddDifference(g,
                    AddDifference(g,
                        AddDifference(g,
                            AddDifference(g,
                                AddDifference(g, turn, tracing, info, p, evaluate_knights),
                                tracing, info, p, evaluate_bishops),
                            tracing, info, p, evaluate_rooks),
                        tracing, info, p, evaluate_queens),
                    tracing, info, p, evaluate_pawns),
                tracing, info, p, evaluate_king),
            game_phase(g))

(***************************************************************************)
(* Move (crate::moves): the eight fields of the encoded move.              *)
(***************************************************************************)
MoveNew(start, target, piece, promotion, capture, double_pawn_push, en_passent, castling) ==
    [start |-> start, target |-> target, piece |-> piece, promotion |-> promotion,
     capture |-> capture, double_pawn_push |-> double_pawn_push,
     en_passent |-> en_passent, castling |-> castling]

king_move(start, target, capture) ==
    MoveNew(start, target, King, NoPiece, capture, FALSE, FALSE, FALSE)
king_castle(start, target) ==
    MoveNew(start, target, King, NoPiece, FALSE, FALSE, FALSE, TRUE)
pawn_push(start, target) ==
    MoveNew(start, target, Pawn, NoPiece, FALSE, FALSE, FALSE, FALSE)
pawn_double_push(start, target) ==
    MoveNew(start, target, Pawn, NoPiece, FALSE, TRUE, FALSE, FALSE)
pawn_capture(start, target) ==
    MoveNew(start, target, Pawn, NoPiece, TRUE, FALSE, FALSE, FALSE)
pawn_enpassent_capture(start, target) ==
    MoveNew(start, target, Pawn, NoPiece, TRUE, FALSE, TRUE, FALSE)
pawn_push_promotion(start, target, promotion) ==
    MoveNew(start, target, Pawn, promotion, FALSE, FALSE, FALSE, FALSE)
pawn_capture_promotion(start, target, promotion) ==
    MoveNew(start, target, Pawn, promotion, TRUE, FALSE, FALSE, FALSE)
knight_move(start, target, capture) ==
    MoveNew(start, target, Knight, NoPiece, capture, FALSE, FALSE, FALSE)
bishop_move(start, target, capture) ==
    MoveNew(start, target, Bishop, NoPiece, capture, FALSE, FALSE, FALSE)
rook_move(start, target, capture) ==
    MoveNew(start, target, Rook, NoPiece, capture, FALSE, FALSE, FALSE)
queen_move(start, target, capture) ==
    MoveNew(start, target, Queen, NoPiece, capture, FALSE, FALSE, FALSE)

PromotionKinds == {Knight, Bishop, Rook, Queen}


is_pseudolegal(g, start, target) ==
    IF start = target THEN TRUE
    ELSE
    LET piece == piece_at(g, start)
        color == g.current_player
    IN  CASE piece = Pawn ->
               LET d == abs_diff(target, start)
               IN  IF d % 8 # 0
                   THEN \* captures
                        pawn_attacks(g, color)
                            \cap (g.color_masks[Not(color)] \cup g.en_passent_mask)
                            \cap bitboard(target) # {}
                   ELSE \* pushes
                        LET push_one == lookup_pawn_push(start, color) \cap inverse(g.combined)
                        IN  IF d = 8 /\ push_one \cap bitboard(target) # {} THEN TRUE
                            ELSE IF d = 16 /\ push_one # {}
                            THEN lookup_pawn_push(first_square(push_one), color)
                                     \cap inverse(g.combined) \cap bitboard(target) # {}
                            ELSE FALSE
          [] piece = Knight ->
               knight_attacks(g, color) \cap inverse(g.color_masks[color]) \cap bitboard(target) # {}
          [] piece = Bishop ->
               bishop_attacks(g, color, g.combined) \cap inverse(g.color_masks[color])
                   \cap bitboard(target) # {}
          [] piece = Rook ->
               rook_attacks(g, color, g.combined) \cap inverse(g.color_masks[color])
                   \cap bitboard(target) # {}
          [] piece = Queen ->
               queen_attacks(g, color, g.combined) \cap inverse(g.color_masks[color])
                   \cap bitboard(target) # {}
          [] piece = King ->
               king_attacks(g, color) \cap inverse(g.color_masks[color]) \cap bitboard(target) # {}
          [] piece = NoPiece -> FALSE

(***************************************************************************)
(* legal_moves.  The Vec<Move> is modelled as the set of its elements.     *)
(***************************************************************************)
\* king square, king-danger squares, checkers and the capture / push masks
LegalMovesContext(g) ==
    LET color == g.current_player
        king_square == first_square(g.piece_masks[color][King])
        kingless_blocking_mask ==
            Xor(g.color_masks[color], g.piece_masks[color][King]) \cup g.color_masks[Not(color)]
        attacked_squares == all_attacks(g, Not(color), kingless_blocking_mask)
        checkers ==
            (lookup_pawn_attack(king_square, color) \cap g.piece_masks[Not(color)][Pawn])
            \cup (lookup_knight(king_square) \cap g.piece_masks[Not(color)][Knight])
            \cup (lookup_bishop(king_square, g.combined)
                    \cap (g.piece_masks[Not(color)][Bishop] \cup g.piece_masks[Not(color)][Queen]))
            \cup (lookup_rook(king_square, g.combined)
                    \cap (g.piece_masks[Not(color)][Rook] \cup g.piece_masks[Not(color)][Queen]))
        num_checkers == count_ones(checkers)
        checker_square == first_square(checkers)
        capture_mask == IF num_checkers = 1 THEN checkers ELSE Universe
        push_mask ==
            IF num_checkers = 1
            THEN IF is_slider(piece_at(g, checker_square))
                 THEN IF rank(king_square) = rank(checker_square)
                         \/ file(king_square) = file(checker_square)
                      THEN lookup_rook(checker_square, bitboard(king_square))
                             \cap lookup_rook(king_square, bitboard(checker_square))
                      ELSE lookup_bishop(checker_square, bitboard(king_square))
                             \cap lookup_bishop(king_square, bitboard(checker_square))
                 ELSE {}
            ELSE Universe
    IN  [color |-> color, king_square |-> king_square,
         attacked_squares |-> attacked_squares, checkers |-> checkers,
         num_checkers |-> num_checkers, capture_mask |-> capture_mask,
         push_mask |-> push_mask]

KingMoves(g, ctx) ==
    LET color == ctx.color
        king_moves == king_attacks(g, color)
                        \cap inverse(ctx.attacked_squares \cup g.color_masks[color])
    IN  {king_move(ctx.king_square, target, bitboard(target) \cap g.color_masks[Not(color)] # {}) :
            target \in king_moves}

\* enemy rooks/queens that pin exactly one own piece on a rank or file
OrthogonalPinners(g, ctx) ==
    LET color == ctx.color
        orthogonal_pin_rays == lookup_rook(ctx.king_square, g.color_masks[Not(color)])
        pinning_orthogonals ==
            (g.piece_masks[Not(color)][Rook] \cup g.piece_masks[Not(color)][Queen])
                \cap orthogonal_pin_rays
    IN  {pinner_square \in pinning_orthogonals :
            count_ones(lookup_between(ctx.king_square, pinner_square) \cap g.color_masks[color]) = 1}

\* enemy bishops/queens that pin exactly one own piece on a diagonal
DiagonalPinners(g, ctx) ==
    LET color == ctx.color
        diagonal_pin_rays == lookup_bishop(ctx.king_square, g.color_masks[Not(color)])
        pinning_diagonals ==
            (g.piece_masks[Not(color)][Bishop] \cup g.piece_masks[Not(color)][Queen])
                \cap diagonal_pin_rays
    IN  {pinner_square \in pinning_diagonals :
            count_ones(lookup_between(ctx.king_square, pinner_square) \cap g.color_masks[color]) = 1}

PinnedPieces(g, ctx) ==
    UNION {lookup_between(ctx.king_square, pinner_square) \cap g.color_masks[ctx.color] :
              pinner_square \in OrthogonalPinners(g, ctx) \cup DiagonalPinners(g, ctx)}

\* moves of the piece pinned by one orthogonal pinner
OrthogonalPinMoves(g, ctx, pinner_square) ==
    LET color == ctx.color
        pin_ray == lookup_between(ctx.king_square, pinner_square)
        pinned_rook_or_queen ==
            pin_ray \cap (g.piece_masks[color][Rook] \cup g.piece_masks[color][Queen])
        rook_square == first_square(pinned_rook_or_queen)
        rook_moves == (pin_ray \cup bitboard(pinner_square))
                        \cap (ctx.push_mask \cup ctx.capture_mask)
                        \cap inverse(pinned_rook_or_queen)
        pinned_pawn == pin_ray \cap g.piece_masks[color][Pawn]
        pawn_square == first_square(pinned_pawn)
        pawn_moves0 == lookup_pawn_push(pawn_square, color)
                        \cap pin_ray \cap ctx.push_mask \cap inverse(g.combined)
        pawn_moves ==
            IF pawn_moves0 # {}
               /\ ((color = White /\ rank(pawn_square) = 1
                      /\ g.combined \cap bitboard(offset(pawn_square, 0, 2)) = {})
                   \/ (color = Black /\ rank(pawn_square) = 6
                      /\ g.combined \cap bitboard(offset(pawn_square, 0, -2)) = {}))
            THEN pawn_moves0 \cup lookup_pawn_push(first_square(pawn_moves0), color)
            ELSE pawn_moves0
    IN  (IF pinned_rook_or_queen # {}
         THEN {MoveNew(rook_square, target, piece_at(g, rook_square), NoPiece,
                       target = pinner_square, FALSE, FALSE, FALSE) : target \in rook_moves}
         ELSE {})
        \cup
        (IF pinned_pawn # {}
         THEN {MoveNew(pawn_square, target, Pawn, NoPiece, FALSE,
                       abs_diff(target, pawn_square) = 16, FALSE, FALSE) : target \in pawn_moves}
         ELSE {})

\* moves of the piece pinned by one diagonal pinner
DiagonalPinMoves(g, ctx, pinner_square) ==
    LET color == ctx.color
        pin_ray == lookup_between(ctx.king_square, pinner_square)
        pinned_bishop_or_queen ==
            pin_ray \cap (g.piece_masks[color][Bishop] \cup g.piece_masks[color][Queen])
        bishop_square == first_square(pinned_bishop_or_queen)
        bishop_moves == (pin_ray \cup bitboard(pinner_square))
                          \cap (ctx.push_mask \cup ctx.capture_mask)
                          \cap inverse(pinned_bishop_or_queen)
        pinned_pawn == pin_ray \cap g.piece_masks[color][Pawn]
        pawn_square == first_square(pinned_pawn)
        pawn_moves == lookup_pawn_attack(pawn_square, color)
                        \cap bitboard(pinner_square)
                        \cap ctx.capture_mask
                        \cap (g.color_masks[Not(color)] \cup g.en_passent_mask)
    IN  (IF pinned_bishop_or_queen # {}
         THEN {MoveNew(bishop_square, target, piece_at(g, bishop_square), NoPiece,
                       target = pinner_square, FALSE, FALSE, FALSE) : target \in bishop_moves}
         ELSE {})
        \cup
        (IF pinned_pawn # {}
         THEN UNION {IF rank(target) = Not(color) * 7
                     THEN {pawn_capture_promotion(pawn_square, target, promo) :
                              promo \in PromotionKinds}
                     ELSE {MoveNew(pawn_square, target, Pawn, NoPiece, TRUE, FALSE,
                                   IF g.en_passent_mask = {} THEN FALSE
                                   ELSE target = first_square(g.en_passent_mask),
                                   FALSE)} :
                     target \in pawn_moves}
         ELSE {})

\* castling without the test of the squares the king crosses
CastlingMovesThroughCheck(g, ctx) ==
    LET color == ctx.color
        king == g.piece_masks[color][King]
        start == first_square(king)
    IN  IF ctx.num_checkers = 0
        THEN (IF g.castling_rights[color][Kingside]
                 /\ g.combined \cap (Shl(king, 1) \cup Shl(king, 2)) = {}
              THEN {king_castle(start, offset(start, 2, 0))} ELSE {})
             \cup
             (IF g.castling_rights[color][Queenside]
                 /\ g.combined \cap (Shr(king, 1) \cup Shr(king, 2) \cup Shr(king, 3)) = {}
              THEN {king_castle(start, offset(start, -2, 0))} ELSE {})
        ELSE {}

CastlingMoves(g, ctx) ==
    LET color == ctx.color
        king == g.piece_masks[color][King]
        start == first_square(king)
    IN  IF ctx.num_checkers = 0
        THEN (IF g.castling_rights[color][Kingside]
                 /\ g.combined \cap (Shl(king, 1) \cup Shl(king, 2)) = {}
                 /\ ctx.attacked_squares \cap (Shl(king, 1) \cup Shl(king, 2)) = {}
              THEN {king_castle(start, offset(start, 2, 0))} ELSE {})
             \cup
             (IF g.castling_rights[color][Queenside]
                 /\ g.combined \cap (Shr(king, 1) \cup Shr(king, 2) \cup Shr(king, 3)) = {}
                 /\ ctx.attacked_squares \cap (Shr(king, 1) \cup Shr(king, 2)) = {}
              THEN {king_castle(start, offset(start, -2, 0))} ELSE {})
        ELSE {}


\* the white test looking for rooks and queens on the fourth rank only
WhiteEnPassentPinnedWrongRank(g, color, pawn_square) ==
    LET blocking_mask ==
            g.combined \cap inverse(bitboard(pawn_square) \cup Shr(g.en_passent_mask, 8))
        attacking_rooks_or_queens ==
            (g.piece_masks[Not(color)][Rook] \cup g.piece_masks[Not(color)][Queen])
                \cap FOURTH_RANK
    IN  \E rook_square \in attacking_rooks_or_queens :
            lookup_rook(rook_square, blocking_mask) \cap g.piece_masks[color][King] # {}

\* whether a white en-passant capture by the pawn on pawn_square is suppressed
WhiteEnPassentPinned(g, color, pawn_square) ==
    LET blocking_mask ==
            g.combined \cap inverse(bitboard(pawn_square) \cup Shr(g.en_passent_mask, 8))
        attacking_rooks_or_queens ==
            (g.piece_masks[Not(color)][Rook] \cup g.piece_masks[Not(color)][Queen])
                \cap FIFTH_RANK
        attacking_queens == g.piece_masks[Not(color)][Queen] \cap FOURTH_RANK
    IN  \/ \E rook_square \in attacking_rooks_or_queens :
              lookup_rook(rook_square, blocking_mask) \cap g.piece_masks[color][King] # {}
        \/ \E queen_square \in attacking_queens :
              lookup_queen(queen_square, blocking_mask) \cap g.piece_masks[color][King] # {}

\* whether a black en-passant capture by the pawn on pawn_square is suppressed
BlackEnPassentPinned(g, color, pawn_square) ==
    LET blocking_mask ==
            g.combined \cap inverse(bitboard(pawn_square) \cup Shl(g.en_passent_mask, 8))
        attacking_rooks_or_queens ==
            (g.piece_masks[Not(color)][Rook] \cup g.piece_masks[Not(color)][Queen])
                \cap FOURTH_RANK
    IN  \E rook_square \in attacking_rooks_or_queens :
            lookup_rook(rook_square, blocking_mask) \cap g.piece_masks[color][King] # {}

\* moves of one unpinned white pawn
WhitePawnMoves(g, ctx, pawn_square) ==
    LET color == ctx.color
        pawn == bitboard(pawn_square)
        pawn_push_one == Shl(pawn, 8) \cap ctx.push_mask \cap inverse(g.combined)
        pawn_push_two ==
            Shl(Shl(pawn \cap SECOND_RANK, 8) \cap inverse(g.combined), 8)
                \cap inverse(g.combined) \cap ctx.push_mask
        pawn_captures ==
            (Shl(pawn \cap NOT_A_FILE, 7) \cup Shl(pawn \cap NOT_H_FILE, 9))
                \cap (ctx.capture_mask \cup (g.en_passent_mask \cap Shl(ctx.capture_mask, 8)))
                \cap (g.color_masks[Not(color)] \cup g.en_passent_mask)
    IN  (IF pawn_push_one # {}
         THEN LET target == first_square(pawn_push_one)
              IN  IF rank(target) = 7
                  THEN {pawn_push_promotion(pawn_square, target, promo) : promo \in PromotionKinds}
                  ELSE {pawn_push(pawn_square, target)}
         ELSE {})
        \cup
        (IF pawn_push_two # {}
         THEN {pawn_double_push(pawn_square, first_square(pawn_push_two))}
         ELSE {})
        \cup
        UNION {IF rank(target) = 7
               THEN {pawn_capture_promotion(pawn_square, target, promo) : promo \in PromotionKinds}
               ELSE IF bitboard(target) = g.en_passent_mask
                    THEN IF rank(first_square(g.piece_masks[color][King])) = 4
                         THEN IF ~WhiteEnPassentPinned(g, color, pawn_square)
                              THEN {pawn_enpassent_capture(pawn_square, target)}
                              ELSE {}
                         ELSE {pawn_enpassent_capture(pawn_square, target)}
                    ELSE {pawn_capture(pawn_square, target)} :
               target \in pawn_captures}

\* moves of one unpinned black pawn
BlackPawnMoves(g, ctx, pawn_square) ==
    LET color == ctx.color
        pawn == bitboard(pawn_square)
        pawn_push_one == Shr(pawn, 8) \cap ctx.push_mask \cap inverse(g.combined)
        pawn_push_two ==
            Shr(Shr(pawn \cap SEVENTH_RANK, 8) \cap inverse(g.combined), 8)
                \cap inverse(g.combined) \cap ctx.push_mask
        pawn_captures ==
            (Shr(pawn \cap NOT_A_FILE, 9) \cup Shr(pawn \cap NOT_H_FILE, 7))
                \cap (ctx.capture_mask \cup (g.en_passent_mask \cap Shr(ctx.capture_mask, 8)))
                \cap (g.color_masks[Not(color)] \cup g.en_passent_mask)
    IN  (IF pawn_push_one # {}
         THEN LET target == first_square(pawn_push_one)
              IN  IF rank(target) = 0
                  THEN {pawn_push_promotion(pawn_square, target, promo) : promo \in PromotionKinds}
                  ELSE {pawn_push(pawn_square, target)}
         ELSE {})
        \cup
        (IF pawn_push_two # {}
         THEN {pawn_double_push(pawn_square, first_square(pawn_push_two))}
         ELSE {})
        \cup
        UNION {IF rank(target) = 0
               THEN {pawn_capture_promotion(pawn_square, target, promo) : promo \in PromotionKinds}
               ELSE IF bitboard(target) = g.en_passent_mask
                    THEN IF rank(first_square(g.piece_masks[color][King])) = 3
                         THEN IF ~BlackEnPassentPinned(g, color, pawn_square)
                              THEN {pawn_enpassent_capture(pawn_square, target)}
                              ELSE {}
                         ELSE {pawn_enpassent_capture(pawn_square, target)}
                    ELSE {pawn_capture(pawn_square, target)} :
               target \in pawn_captures}

\* knight, bishop, rook and queen moves of the unpinned pieces
PieceMoves(g, ctx, pinned_pieces) ==
    LET color == ctx.color
        allowed == inverse(g.color_masks[color]) \cap (ctx.push_mask \cup ctx.capture_mask)
        capture(target) == g.color_masks[Not(color)] \cap bitboard(target) # {}
        knights == g.piece_masks[color][Knight] \cap inverse(pinned_pieces)
        bishops == g.piece_masks[color][Bishop] \cap inverse(pinned_pieces)
        rooks == g.piece_masks[color][Rook] \cap inverse(pinned_pieces)
        queens == g.piece_masks[color][Queen] \cap inverse(pinned_pieces)
    IN  UNION {{knight_move(sq, target, capture(target)) :
                  target \in lookup_knight(sq) \cap allowed} : sq \in knights}
        \cup
        UNION {{bishop_move(sq, target, capture(target)) :
                  target \in lookup_bishop(sq, g.combined) \cap allowed} : sq \in bishops}
        \cup
        UNION {{rook_move(sq, target, capture(target)) :
                  target \in lookup_rook(sq, g.combined) \cap allowed} : sq \in rooks}
        \cup
        UNION {{queen_move(sq, target, capture(target)) :
                  target \in lookup_queen(sq, g.combined) \cap allowed} : sq \in queens}

\* legal_moves without the early return in double check
legal_moves_no_double_check_return(g) ==
    LET ctx == LegalMovesContext(g)
        color == ctx.color
        pinned_pieces == PinnedPieces(g, ctx)
        pawns == g.piece_masks[color][Pawn] \cap inverse(pinned_pieces)
    IN  KingMoves(g, ctx)
        \cup UNION {OrthogonalPinMoves(g, ctx, ps) : ps \in OrthogonalPinners(g, ctx)}
        \cup UNION {DiagonalPinMoves(g, ctx, ps) : ps \in DiagonalPinners(g, ctx)}
        \cup CastlingMoves(g, ctx)
        \cup (IF color = White
              THEN UNION {WhitePawnMoves(g, ctx, sq) : sq \in pawns}
              ELSE UNION {BlackPawnMoves(g, ctx, sq) : sq \in pawns})
        \cup PieceMoves(g, ctx, pinned_pieces)

legal_moves(g) ==
    LET ctx == LegalMovesContext(g)
        color == ctx.color
        pinned_pieces == PinnedPieces(g, ctx)
        pawns == g.piece_masks[color][Pawn] \cap inverse(pinned_pieces)
    IN  IF ctx.num_checkers > 1
        THEN KingMoves(g, ctx)
        ELSE KingMoves(g, ctx)
             \cup UNION {OrthogonalPinMoves(g, ctx, ps) : ps \in OrthogonalPinners(g, ctx)}
             \cup UNION {DiagonalPinMoves(g, ctx, ps) : ps \in DiagonalPinners(g, ctx)}
             \cup CastlingMoves(g, ctx)
             \cup (IF color = White
                   THEN UNION {WhitePawnMoves(g, ctx, sq) : sq \in pawns}
                   ELSE UNION {BlackPawnMoves(g, ctx, sq) : sq \in pawns})
             \cup PieceMoves(g, ctx, pinned_pieces)


(***************************************************************************)
(* make_move / unmake_move / make_null_move / unmake_null_move             *)
(***************************************************************************)
UnMoveNew(start, target, promotion, capture, en_passent, en_passent_mask, castling, castling_rights, halfmove_clock) ==
    [start |-> start, target |-> target, promotion |-> promotion, capture |-> capture,
     en_passent |-> en_passent, en_passent_mask |-> en_passent_mask,
     castling |-> castling, castling_rights |-> castling_rights,
     halfmove_clock |-> halfmove_clock]

\* u8 arithmetic of a build without overflow checks
WrappingAddU8(a, b) == (a + b) % 256
WrappingSubU8(a, b) == (a - b + 256) % 256

\* the piece captured by move_ in g
Captured(g, move_) == IF move_.en_passent THEN Pawn ELSE piece_at(g, move_.target)

\* make_move pushing the UnMove and not the hash
MakeMovePushUnmoveOnly(g, move_) ==
    [g EXCEPT
        !.unmove_history = Append(@, UnMoveNew(move_.start, move_.target,
                                               move_.promotion # NoPiece,
                                               Captured(g, move_), move_.en_passent,
                                               g.en_passent_mask, move_.castling,
                                               g.castling_rights, g.halfmove_clock))]

\* make_move up to and including the pushes onto both history stacks
MakeMovePushHistory(g, move_) ==
    [g EXCEPT
        !.unmove_history = Append(@, UnMoveNew(move_.start, move_.target,
                                               move_.promotion # NoPiece,
                                               Captured(g, move_), move_.en_passent,
                                               g.en_passent_mask, move_.castling,
                                               g.castling_rights, g.halfmove_clock)),
        !.position_history = Append(@, g.hash)]

\* the castling branch: king and rook are moved, the mover's rights cleared
MakeMoveCastling(g, color, start, target) ==
    LET dx == target - start
        rook_start == IF dx = 2 THEN offset(target, 1, 0) ELSE offset(target, -2, 0)
        rook_target == IF dx = 2 THEN offset(target, -1, 0) ELSE offset(target, 1, 0)
        rights == [g.castling_rights EXCEPT ![color] = [s \in {Queenside, Kingside} |-> FALSE]]
    IN  [g EXCEPT
            !.hash = Xor(Xor(Xor(Xor(Xor(Xor(@, zobrist_piece(King, color, start)),
                                             zobrist_piece(King, color, target)),
                                         zobrist_piece(Rook, color, rook_start)),
                                     zobrist_piece(Rook, color, rook_target)),
                                 zobrist_castling(g.castling_rights)),
                             zobrist_castling(rights)),
            !.piece_masks[color][King] = Xor(@, bitboard(target) \cup bitboard(start)),
            !.piece_masks[color][Rook] = Xor(@, bitboard(rook_target) \cup bitboard(rook_start)),
            !.color_masks[color] = Xor(@, bitboard(start) \cup bitboard(target)
                                            \cup bitboard(rook_start) \cup bitboard(rook_target)),
            !.castling_rights = rights]

\* MakeMoveCapture forgetting the captured piece's colour mask
MakeMoveCaptureKeepsColorMask(g, color, move_, captured) ==
    LET cap_square == IF move_.en_passent
                      THEN IF color = White THEN offset(move_.target, 0, -1)
                                            ELSE offset(move_.target, 0, 1)
                      ELSE move_.target
    IN  [g EXCEPT
            !.hash = Xor(@, zobrist_piece(captured, Not(color), cap_square)),
            !.piece_masks[Not(color)][captured] = Xor(@, bitboard(cap_square)),
            !.halfmove_clock = 0]

\* removal of the captured piece
MakeMoveCapture(g, color, move_, captured) ==
    LET cap_square == IF move_.en_passent
                      THEN IF color = White THEN offset(move_.target, 0, -1)
                                            ELSE offset(move_.target, 0, 1)
                      ELSE move_.target
    IN  [g EXCEPT
            !.hash = Xor(@, zobrist_piece(captured, Not(color), cap_square)),
            !.piece_masks[Not(color)][captured] = Xor(@, bitboard(cap_square)),
            !.color_masks[Not(color)] = Xor(@, bitboard(cap_square)),
            !.halfmove_clock = 0]

\* castling_rights[(color, side)] = false with the composite hashed out and in
ClearCastlingRight(g, color, sides) ==
    LET rights == [g.castling_rights EXCEPT
                      ![color] = [s \in {Queenside, Kingside} |->
                                    IF s \in sides THEN FALSE ELSE @[s]]]
    IN  [g EXCEPT
            !.hash = Xor(Xor(@, zobrist_castling(g.castling_rights)), zobrist_castling(rights)),
            !.castling_rights = rights]

\* the castling-rights update without the rook-capture branch
MakeMoveCastlingRightsNoCapture(g, color, move_, captured) ==
    IF move_.piece = King
    THEN ClearCastlingRight(g, color, {Queenside, Kingside})
    ELSE IF move_.piece = Rook
         THEN IF g.castling_rights[color][Kingside] /\ move_.start = 7 + 56 * color
              THEN ClearCastlingRight(g, color, {Kingside})
              ELSE IF g.castling_rights[color][Queenside] /\ move_.start = 56 * color
                   THEN ClearCastlingRight(g, color, {Queenside})
                   ELSE g
         ELSE g

\* the castling-rights update for a king move, a rook move and a rook capture
MakeMoveCastlingRights(g, color, move_, captured) ==
    LET g1 == IF move_.piece = King
              THEN ClearCastlingRight(g, color, {Queenside, Kingside})
              ELSE IF move_.piece = Rook
                   THEN IF g.castling_rights[color][Kingside] /\ move_.start = 7 + 56 * color
                        THEN ClearCastlingRight(g, color, {Kingside})
                        ELSE IF g.castling_rights[color][Queenside] /\ move_.start = 56 * color
                             THEN ClearCastlingRight(g, color, {Queenside})
                             ELSE g
                   ELSE g
    IN  IF captured = Rook
        THEN IF g1.castling_rights[Not(color)][Kingside] /\ move_.target = 7 + 56 * Not(color)
             THEN ClearCastlingRight(g1, Not(color), {Kingside})
             ELSE IF g1.castling_rights[Not(color)][Queenside] /\ move_.target = 56 * Not(color)
                  THEN ClearCastlingRight(g1, Not(color), {Queenside})
                  ELSE g1
        ELSE g1

\* the pawn special cases: en-passant square, promotion, rule 50
MakeMovePawn(g, color, move_) ==
    LET ep_square == IF color = White THEN offset(move_.target, 0, -1)
                                      ELSE offset(move_.target, 0, 1)
        ep_mask == bitboard(ep_square) \cap pawn_attacks(g, Not(color))
        g1 == IF move_.double_pawn_push
              THEN [g EXCEPT !.en_passent_mask = ep_mask,
                             !.hash = IF ep_mask # {} THEN Xor(@, zobrist_enpassent(ep_mask))
                                                      ELSE @]
              ELSE g
        g2 == IF move_.promotion # NoPiece
              THEN [g1 EXCEPT
                      !.hash = Xor(Xor(@, zobrist_piece(Pawn, color, move_.target)),
                                   zobrist_piece(move_.promotion, color, move_.target)),
                      !.piece_masks[color][Pawn] = Xor(@, bitboard(move_.target)),
                      !.piece_masks[color][move_.promotion] = @ \cup bitboard(move_.target)]
              ELSE g1
    IN  [g2 EXCEPT !.halfmove_clock = 0]

make_move(g, move_) ==
    LET color == g.current_player
        start == move_.start
        target == move_.target
        piece == move_.piece
        captured == Captured(g, move_)
        g1 == MakeMovePushHistory(g, move_)
        g2 == [g1 EXCEPT !.halfmove_clock = WrappingAddU8(@, 1)]
        g3 == IF move_.castling THEN MakeMoveCastling(g2, color, start, target) ELSE g2
        g4 == IF captured # NoPiece THEN MakeMoveCapture(g3, color, move_, captured) ELSE g3
        g5 == IF g4.en_passent_mask # {}
              THEN [g4 EXCEPT !.hash = Xor(@, zobrist_enpassent(g4.en_passent_mask)),
                              !.en_passent_mask = {}]
              ELSE g4
        g6 == MakeMoveCastlingRights(g5, color, move_, captured)
        g7 == IF ~move_.castling
              THEN [g6 EXCEPT
                      !.hash = Xor(Xor(@, zobrist_piece(piece, color, start)),
                                   zobrist_piece(piece, color, target)),
                      !.piece_masks[color][piece] = Xor(@, bitboard(start) \cup bitboard(target)),
                      !.color_masks[color] = Xor(@, bitboard(start) \cup bitboard(target))]
              ELSE g6
        g8 == IF piece = Pawn THEN MakeMovePawn(g7, color, move_) ELSE g7
        g9 == [g8 EXCEPT !.hash = Xor(@, zobrist_player),
                         !.current_player = Not(@)]
    IN  [g9 EXCEPT !.combined = g9.color_masks[White] \cup g9.color_masks[Black]]


Last(seq) == seq[Len(seq)]
Pop(seq) == SubSeq(seq, 1, Len(seq) - 1)

\* UnmakeMoveCastling testing the king's start file instead of its target file
UnmakeMoveCastlingWrongRook(g, start, target) ==
    LET player == g.current_player
        rook_start == IF file(start) = 2 THEN offset(target, -2, 0) ELSE offset(target, 1, 0)
        rook_target == IF file(start) = 2 THEN offset(target, 1, 0) ELSE offset(target, -1, 0)
    IN  [g EXCEPT
            !.piece_masks[player][King] = Xor(@, bitboard(start) \cup bitboard(target)),
            !.piece_masks[player][Rook] = Xor(@, bitboard(rook_start) \cup bitboard(rook_target)),
            !.color_masks[player] = Xor(@, bitboard(start) \cup bitboard(target)
                                             \cup bitboard(rook_start) \cup bitboard(rook_target))]

\* the castling branch of unmake_move: king and rook go back
UnmakeMoveCastling(g, start, target) ==
    LET player == g.current_player
        rook_start == IF file(target) = 2 THEN offset(target, -2, 0) ELSE offset(target, 1, 0)
        rook_target == IF file(target) = 2 THEN offset(target, 1, 0) ELSE offset(target, -1, 0)
    IN  [g EXCEPT
            !.piece_masks[player][King] = Xor(@, bitboard(start) \cup bitboard(target)),
            !.piece_masks[player][Rook] = Xor(@, bitboard(rook_start) \cup bitboard(rook_target)),
            !.color_masks[player] = Xor(@, bitboard(start) \cup bitboard(target)
                                             \cup bitboard(rook_start) \cup bitboard(rook_target))]

\* the non-castling branch: the piece goes back and the captured piece is replaced
UnmakeMoveNormal(g, unmove, piece) ==
    LET player == g.current_player
        start == unmove.start
        target == unmove.target
        g1 == [g EXCEPT
                 !.piece_masks[player][piece] = Xor(@, bitboard(start) \cup bitboard(target)),
                 !.color_masks[player] = Xor(@, bitboard(start) \cup bitboard(target))]
        cap_square == IF unmove.en_passent
                      THEN IF player = White THEN offset(target, 0, -1)
                                             ELSE offset(target, 0, 1)
                      ELSE target
    IN  IF unmove.capture # NoPiece
        THEN [g1 EXCEPT
                !.piece_masks[Not(player)][unmove.capture] = Xor(@, bitboard(cap_square)),
                !.color_masks[Not(player)] = Xor(@, bitboard(cap_square))]
        ELSE g1

unmake_move(g) ==
    LET g1 == [g EXCEPT !.current_player = Not(@)]
        unmove == Last(g.unmove_history)
        g2 == [g1 EXCEPT !.unmove_history = Pop(@)]
        start == unmove.start
        target == unmove.target
        piece0 == piece_at(g2, target)
        g3 == IF unmove.promotion
              THEN [[g2 EXCEPT !.piece_masks[g2.current_player][piece0] = Xor(@, bitboard(target))]
                        EXCEPT !.piece_masks[g2.current_player][Pawn] = Xor(@, bitboard(target))]
              ELSE g2
        piece == IF unmove.promotion THEN Pawn ELSE piece0
        g4 == IF unmove.castling
              THEN UnmakeMoveCastling(g3, start, target)
              ELSE UnmakeMoveNormal(g3, unmove, piece)
        g5 == [g4 EXCEPT !.castling_rights = unmove.castling_rights,
                         !.en_passent_mask = unmove.en_passent_mask,
                         !.hash = Last(g4.position_history),
                         !.position_history = Pop(@),
                         !.halfmove_clock = unmove.halfmove_clock]
    IN  [g5 EXCEPT !.combined = g5.color_masks[White] \cup g5.color_masks[Black]]

\* make_null_move up to and including hash ^= zobrist_player()
MakeNullMoveHash(g) ==
    LET unmove == UnMoveNew(0, 0, FALSE, NoPiece, FALSE, g.en_passent_mask,
                            FALSE, g.castling_rights, 0)
        g1 == [g EXCEPT !.unmove_history = Append(@, unmove),
                        !.position_history = Append(@, g.hash)]
        g2 == IF g1.en_passent_mask # {}
              THEN [g1 EXCEPT !.hash = Xor(@, zobrist_enpassent(g1.en_passent_mask)),
                              !.en_passent_mask = {}]
              ELSE g1
    IN  [g2 EXCEPT !.hash = Xor(@, zobrist_player)]

\* make_null_move clearing the en-passant mask without hashing it out
make_null_move_keeps_ep_hash(g) ==
    LET unmove == UnMoveNew(0, 0, FALSE, NoPiece, FALSE, g.en_passent_mask,
                            FALSE, g.castling_rights, 0)
        g1 == [g EXCEPT !.unmove_history = Append(@, unmove),
                        !.position_history = Append(@, g.hash),
                        !.en_passent_mask = {}]
    IN  [g1 EXCEPT !.hash = Xor(@, zobrist_player),
                   !.halfmove_clock = WrappingAddU8(@, 1),
                   !.current_player = Not(@)]

make_null_move(g) ==
    [MakeNullMoveHash(g) EXCEPT !.halfmove_clock = WrappingAddU8(@, 1),
                                !.current_player = Not(@)]

\* unmake_null_move not putting the en-passant mask back
unmake_null_move_drops_ep(g) ==
    [g EXCEPT !.unmove_history = Pop(@),
              !.current_player = Not(@),
              !.halfmove_clock = WrappingSubU8(@, 1),
              !.hash = Last(g.position_history),
              !.position_history = Pop(@)]

unmake_null_move(g) ==
    LET unmove == Last(g.unmove_history)
    IN  [g EXCEPT !.unmove_history = Pop(@),
                  !.en_passent_mask = unmove.en_passent_mask,
                  !.current_player = Not(@),
                  !.halfmove_clock = WrappingSubU8(@, 1),
                  !.hash = Last(g.position_history),
                  !.position_history = Pop(@)]

(***************************************************************************)
(* TranspositionTable (transposition_table.rs).  A u64 word (a hash, a     *)
(* key, a data word) is the set of its set bits, bit 0 the least           *)
(* significant; ^ is Xor, & is \cap, | is \cup, << and >> are Shl and Shr. *)
(***************************************************************************)
Exact == 0
UpperBound == 1
LowerBound == 2

\* size_of::<Entry>(): two AtomicU64
SizeOfEntry == 16

Pow2(n) == 2 ^ n

\* the bits of a natural number below 2^width (width <= 31)
BitsOfNat(n, width) == {i \in 0..(width - 1) : (n \div Pow2(i)) % 2 = 1}

RECURSIVE NatOfBits(_)
\* the number a set of bits below bit 31 stands for
NatOfBits(bits) ==
    IF bits = {} THEN 0
    ELSE LET b == CHOOSE x \in bits : TRUE
         IN  Pow2(b) + NatOfBits(bits \ {b})

\* `score as u32 as u64`: the two's complement bits of an i32
ScoreAsU32(score) ==
    IF score >= 0 THEN BitsOfNat(score, 31)
    ELSE BitsOfNat((score + Pow2(30)) + Pow2(30), 31) \cup {31}

\* `(data & 0xFFFFFFFF) as i32`
WordAsI32(word) ==
    LET low == NatOfBits(word \cap (0..30))
    IN  IF 31 \in word THEN (low - Pow2(30)) - Pow2(30) ELSE low

\* `depth as u8` for an i8
DepthAsU8(depth) == BitsOfNat((depth + 256) % 256, 8)

\* `depth as u64` for an i8: the sign is extended
DepthAsU64(depth) == DepthAsU8(depth) \cup (IF depth < 0 THEN 8..63 ELSE {})

\* `(x & 0xFF) as i8`
ByteAsI8(word) ==
    LET n == NatOfBits(word \cap (0..7))
    IN  IF n >= 128 THEN n - 256 ELSE n

\* a > b for u64 words
GreaterU64(a, b) ==
    \E i \in a \ b : \A j \in (i + 1)..63 : (j \in a) <=> (j \in b)

\* usize::next_power_of_two (values far below the overflow of usize)
RECURSIVE NextPowerOfTwoFrom(_, _)
NextPowerOfTwoFrom(n, p) == IF p >= n THEN p ELSE NextPowerOfTwoFrom(n, 2 * p)
next_power_of_two(n) == NextPowerOfTwoFrom(n, 1)

NodeType_from_u8(n) ==
    CASE n = 0 -> Exact
      [] n = 1 -> UpperBound
      [] n = 2 -> LowerBound
      [] OTHER -> "unreachable"

PieceIndex_from_u8(n) == IF n \in 0..5 THEN n ELSE NoPiece

\* Entry::default(): both words zero
DefaultEntry == [key |-> {}, data |-> {}]

\* the vector of entries: its length, and the entries that are not the default
TableOfLength(length) == [len |-> length, slots |-> << >>]

\* TranspositionTable::new
new(table_size_mb) ==
    LET length == (table_size_mb * 1024 * 1024) \div SizeOfEntry
    IN  TableOfLength(IF length # 0 THEN next_power_of_two(length) ELSE length)

\* TranspositionTable::set_size: resize_with keeps the entries below the new length
set_size(t, size_mb) ==
    LET length == next_power_of_two((size_mb * 1024 * 1024) \div SizeOfEntry)
        kept == {i \in DOMAIN t.slots : i < length}
    IN  [len |-> length, slots |-> [i \in kept |-> t.slots[i]]]

\* `hash as usize & (table.len() - 1)` followed by table.get(index): the index
\* of the entry, or NULL for None.  With len = 0 the subtraction wraps (a build
\* without overflow checks) and no entry exists at any index.
EntryIndex(t, hash) ==
    IF t.len = 0 THEN NULL
    ELSE LET mask == BitsOfNat(t.len - 1, 31)
             index == NatOfBits(hash \cap mask)
         IN  IF index < t.len THEN index ELSE NULL

EntryAt(t, index) == IF index \in DOMAIN t.slots THEN t.slots[index] ELSE DefaultEntry

StoreEntry(t, index, entry) ==
    [t EXCEPT !.slots = [i \in DOMAIN t.slots \cup {index} |->
                            IF i = index THEN entry ELSE t.slots[i]]]

\* lines 100-101: the depth test of set
DepthPreferred(stored_data, depth) ==
    LET stored_depth == Shr(stored_data, 24) \cap (0..7)
    IN  GreaterU64(stored_depth, DepthAsU64(depth))

BoolBit(b) == IF b THEN {0} ELSE {}

\* the data word with the node type one bit too low, over the promotion field
PackDataNodeTypeOverPromotion(best_move, depth, score, node_type) ==
    ScoreAsU32(score)
    \cup Shl(DepthAsU8(depth), 32)
    \cup Shl(BitsOfNat(best_move.start, 8), 32 + 8)
    \cup Shl(BitsOfNat(best_move.target, 8), 32 + 8 + 8)
    \cup Shl(BitsOfNat(best_move.promotion, 8), 32 + 8 + 8 + 8)
    \cup Shl(BitsOfNat(node_type, 8), 32 + 8 + 8 + 8 + 2)
    \cup Shl(BoolBit(best_move.double_pawn_push), 32 + 8 + 8 + 8 + 3 + 2)
    \cup Shl(BoolBit(best_move.en_passent), 32 + 8 + 8 + 8 + 3 + 2 + 1)
    \cup Shl(BoolBit(best_move.castling), 32 + 8 + 8 + 8 + 3 + 2 + 1 + 1)

\* lines 106-115: the data word of an entry
PackData(best_move, depth, score, node_type) ==
    ScoreAsU32(score)
    \cup Shl(DepthAsU8(depth), 32)
    \cup Shl(BitsOfNat(best_move.start, 8), 32 + 8)
    \cup Shl(BitsOfNat(best_move.target, 8), 32 + 8 + 8)
    \cup Shl(BitsOfNat(best_move.promotion, 8), 32 + 8 + 8 + 8)
    \cup Shl(BitsOfNat(node_type, 8), 32 + 8 + 8 + 8 + 3)
    \cup Shl(BoolBit(best_move.double_pawn_push), 32 + 8 + 8 + 8 + 3 + 2)
    \cup Shl(BoolBit(best_move.en_passent), 32 + 8 + 8 + 8 + 3 + 2 + 1)
    \cup Shl(BoolBit(best_move.castling), 32 + 8 + 8 + 8 + 3 + 2 + 1 + 1)

\* TTEntry::from_data
from_data(data) ==
    [score |-> WordAsI32(data \cap (0..31)),
     depth |-> ByteAsI8(Shr(data, 32)),
     move_start |-> NatOfBits(Shr(data, 32 + 8) \cap (0..7)),
     move_target |-> NatOfBits(Shr(data, 32 + 8 + 8) \cap (0..7)),
     promotion |-> PieceIndex_from_u8(NatOfBits(Shr(data, 32 + 8 + 8 + 8) \cap (0..2))),
     node_type |-> NodeType_from_u8(NatOfBits(Shr(data, 32 + 8 + 8 + 8 + 3) \cap (0..1))),
     double_pawn_push |-> Shr(data, 32 + 8 + 8 + 8 + 3 + 2) \cap {0} # {},
     en_passent_capture |-> Shr(data, 32 + 8 + 8 + 8 + 3 + 2 + 1) \cap {0} # {},
     castling |-> Shr(data, 32 + 8 + 8 + 8 + 3 + 2 + 1 + 1) \cap {0} # {}]

\* Option<TTEntry>
None == [some |-> FALSE]
Some(entry) == [some |-> TRUE, entry |-> entry]

\* the key store without the XOR interlock
SetStoreKeyPlainHash(t, index, hash, data) ==
    StoreEntry(t, index, [EntryAt(t, index) EXCEPT !.key = hash])

\* line 117: stored.key.store(hash ^ data)
SetStoreKey(t, index, hash, data) ==
    StoreEntry(t, index, [EntryAt(t, index) EXCEPT !.key = Xor(hash, data)])

\* line 118: stored.data.store(data)
SetStoreData(t, index, data) ==
    StoreEntry(t, index, [EntryAt(t, index) EXCEPT !.data = data])

\* TranspositionTable::set run without interruption
set(t, hash, best_move, depth, score, node_type) ==
    LET index == EntryIndex(t, hash)
        data == PackData(best_move, depth, score, node_type)
    IN  IF index = NULL THEN t
        ELSE IF DepthPreferred(EntryAt(t, index).data, depth) THEN t
        ELSE SetStoreData(SetStoreKey(t, index, hash, data), index, data)

\* lines 130-136: the validation of get, on the two words it loaded
GetResult(key, data, hash) ==
    IF Xor(key, data) = hash THEN Some(from_data(data)) ELSE None

\* TranspositionTable::get run without interruption
get(t, hash) ==
    LET index == EntryIndex(t, hash)
    IN  IF index = NULL THEN None
        ELSE GetResult(EntryAt(t, index).key, EntryAt(t, index).data, hash)

(***************************************************************************)
(* The rules of chess, stated square by square on a plain board, as the    *)
(* reference the move generator is compared with.                          *)
(***************************************************************************)
\* the board of g: square -> <<color, piece>>, or <<>> for an empty square
BoardOf(g) ==
    [sq \in Squares |->
        IF \E c \in Colors, p \in PieceKinds : sq \in g.piece_masks[c][p]
        THEN CHOOSE cp \in Colors \X PieceKinds : sq \in g.piece_masks[cp[1]][cp[2]]
        ELSE <<>>]

Forward(color) == IF color = White THEN 1 ELSE -1
KnightJumps == {<<1, 2>>, <<2, 1>>, <<2, -1>>, <<1, -2>>,
                <<-1, -2>>, <<-2, -1>>, <<-2, 1>>, <<-1, 2>>}
KingSteps == {<<1, 0>>, <<1, 1>>, <<0, 1>>, <<-1, 1>>,
              <<-1, 0>>, <<-1, -1>>, <<0, -1>>, <<1, -1>>}
RookSteps == {<<1, 0>>, <<0, 1>>, <<-1, 0>>, <<0, -1>>}
BishopSteps == {<<1, 1>>, <<-1, 1>>, <<-1, -1>>, <<1, -1>>}

Step(sq, d, n) == SquareAt(file(sq) + n * d[1], rank(sq) + n * d[2])
StepOnBoard(sq, d, n) == OnBoard(file(sq) + n * d[1], rank(sq) + n * d[2])

\* squares reachable from sq sliding along d over empty squares, the first
\* occupied square included
SlideTargets(board, sq, d) ==
    {Step(sq, d, n) : n \in {k \in 1..7 :
        /\ StepOnBoard(sq, d, k)
        /\ \A j \in 1..(k - 1) : board[Step(sq, d, j)] = <<>>}}

\* squares the piece on sq attacks
AttacksFrom(board, sq) ==
    LET c == board[sq][1]
        p == board[sq][2]
    IN  CASE p = Pawn -> {Step(sq, <<dx, Forward(c)>>, 1) :
                            dx \in {x \in {-1, 1} : StepOnBoard(sq, <<x, Forward(c)>>, 1)}}
          [] p = Knight -> {Step(sq, d, 1) : d \in {x \in KnightJumps : StepOnBoard(sq, x, 1)}}
          [] p = King -> {Step(sq, d, 1) : d \in {x \in KingSteps : StepOnBoard(sq, x, 1)}}
          [] p = Rook -> UNION {SlideTargets(board, sq, d) : d \in RookSteps}
          [] p = Bishop -> UNION {SlideTargets(board, sq, d) : d \in BishopSteps}
          [] p = Queen -> UNION {SlideTargets(board, sq, d) : d \in RookSteps \cup BishopSteps}

\* whether a piece of color by attacks square sq
Attacked(board, sq, by) ==
    \E from \in Squares :
        board[from] # <<>> /\ board[from][1] = by /\ sq \in AttacksFrom(board, from)

KingSquareOf(board, color) == CHOOSE sq \in Squares : board[sq] = <<color, King>>

\* the board after the move (start, target, promotion) of the given kind
BoardAfter(board, color, start, target, promotion, is_ep, is_castle) ==
    LET moved == IF promotion # NoPiece THEN <<color, promotion>> ELSE board[start]
        ep_victim == Step(target, <<0, -Forward(color)>>, 1)
        rook_from == IF file(target) = 6 THEN target + 1 ELSE target - 2
        rook_to == IF file(target) = 6 THEN target - 1 ELSE target + 1
    IN  [sq \in Squares |->
            IF sq = target THEN moved
            ELSE IF sq = start THEN <<>>
            ELSE IF is_ep /\ sq = ep_victim THEN <<>>
            ELSE IF is_castle /\ sq = rook_from THEN <<>>
            ELSE IF is_castle /\ sq = rook_to THEN <<color, Rook>>
            ELSE board[sq]]

\* the moves the rules allow before king safety: [start, target, promotion, ep, castle]
RulesCandidate(start, target, promotion, is_ep, is_castle) ==
    [start |-> start, target |-> target, promotion |-> promotion,
     ep |-> is_ep, castle |-> is_castle]

RulesPawnMoves(g, board, color, sq) ==
    LET fwd == <<0, Forward(color)>>
        last == IF color = White THEN 7 ELSE 0
        home == IF color = White THEN 1 ELSE 6
        one == IF StepOnBoard(sq, fwd, 1) /\ board[Step(sq, fwd, 1)] = <<>>
               THEN {Step(sq, fwd, 1)} ELSE {}
        two == IF one # {} /\ rank(sq) = home /\ board[Step(sq, fwd, 2)] = <<>>
               THEN {Step(sq, fwd, 2)} ELSE {}
        caps == {t \in AttacksFrom(board, sq) : board[t] # <<>> /\ board[t][1] # color}
        eps == {t \in AttacksFrom(board, sq) :
                  /\ t \in g.en_passent_mask
                  /\ board[t] = <<>>
                  /\ board[Step(t, <<0, -Forward(color)>>, 1)] = <<Not(color), Pawn>>}
        promote(t) == IF rank(t) = last THEN PromotionKinds ELSE {NoPiece}
    IN  {RulesCandidate(sq, tp[1], tp[2], FALSE, FALSE) :
            tp \in {x \in (one \cup two \cup caps) \X (PromotionKinds \cup {NoPiece}) :
                        x[2] \in promote(x[1])}}
        \cup {RulesCandidate(sq, t, NoPiece, TRUE, FALSE) : t \in eps}

RulesCastlingMoves(g, board, color) ==
    LET home == IF color = White THEN 4 ELSE 60
        ok(side) ==
            LET rook_sq == IF side = Kingside THEN home + 3 ELSE home - 4
                between == IF side = Kingside THEN {home + 1, home + 2}
                                              ELSE {home - 1, home - 2, home - 3}
                crossed == IF side = Kingside THEN {home, home + 1, home + 2}
                                              ELSE {home, home - 1, home - 2}
            IN  /\ g.castling_rights[color][side]
                /\ board[home] = <<color, King>>
                /\ board[rook_sq] = <<color, Rook>>
                /\ \A sq \in between : board[sq] = <<>>
                /\ \A sq \in crossed : ~Attacked(board, sq, Not(color))
    IN  {RulesCandidate(home, IF side = Kingside THEN home + 2 ELSE home - 2,
                        NoPiece, FALSE, TRUE) : side \in {x \in {Queenside, Kingside} : ok(x)}}

RulesPseudoLegal(g, board, color) ==
    UNION {IF board[sq] = <<>> \/ board[sq][1] # color THEN {}
           ELSE IF board[sq][2] = Pawn THEN RulesPawnMoves(g, board, color, sq)
           ELSE {RulesCandidate(sq, t, NoPiece, FALSE, FALSE) :
                    t \in {x \in AttacksFrom(board, sq) :
                              board[x] = <<>> \/ board[x][1] # color}} :
           sq \in Squares}
    \cup RulesCastlingMoves(g, board, color)

\* the legal moves of the side to move under the rules of chess
RulesLegalMoves(g) ==
    LET board == BoardOf(g)
        color == g.current_player
    IN  {m \in RulesPseudoLegal(g, board, color) :
            LET after == BoardAfter(board, color, m.start, m.target, m.promotion, m.ep, m.castle)
            IN  ~Attacked(after, KingSquareOf(after, color), Not(color))}

\* what identifies a move: start, target and promotion kind
MoveKey(m) == <<m.start, m.target, m.promotion>>
MoveKeys(moves) == {MoveKey(m) : m \in moves}

(***************************************************************************)
(* The positions the model starts from (each a FEN handed to set_from_fen) *)
(***************************************************************************)
\* 4k3/8/8/8/8/8/8/4K2R w K - 3 1
FenCastleKingside ==
    <<"4", "k", "3", "/", "8", "/", "8", "/", "8", "/", "8", "/", "8", "/", "8", "/", "4", "K", "2", "R", " ", "w", " ", "K", " ", "-", " ", "3", " ", "1">>
\* r3k3/8/8/8/8/8/8/4K3 b q - 0 1
FenCastleQueenside ==
    <<"r", "3", "k", "3", "/", "8", "/", "8", "/", "8", "/", "8", "/", "8", "/", "8", "/", "4", "K", "3", " ", "b", " ", "q", " ", "-", " ", "0", " ", "1">>
\* 1n2k3/P7/8/8/8/8/8/4K3 w - - 0 1
FenPromotion ==
    <<"1", "n", "2", "k", "3", "/", "P", "7", "/", "8", "/", "8", "/", "8", "/", "8", "/", "8", "/", "4", "K", "3", " ", "w", " ", "-", " ", "-", " ", "0", " ", "1">>
\* 8/6b1/8/4Pp2/8/2K5/8/7k w - f6 0 1
FenPinnedEnPassent ==
    <<"8", "/", "6", "b", "1", "/", "8", "/", "4", "P", "p", "2", "/", "8", "/", "2", "K", "5", "/", "8", "/", "7", "k", " ", "w", " ", "-", " ", "f", "6", " ", "0", " ", "1">>
\* 8/8/8/KPp4r/8/8/8/4k3 w - c6 0 1
FenEnPassentRank ==
    <<"8", "/", "8", "/", "8", "/", "K", "P", "p", "4", "r", "/", "8", "/", "8", "/", "8", "/", "4", "k", "3", " ", "w", " ", "-", " ", "c", "6", " ", "0", " ", "1">>
\* 4k3/8/8/8/1p6/8/P7/4K3 w - - 0 1
FenDoublePush ==
    <<"4", "k", "3", "/", "8", "/", "8", "/", "8", "/", "1", "p", "6", "/", "8", "/", "P", "7", "/", "4", "K", "3", " ", "w", " ", "-", " ", "-", " ", "0", " ", "1">>
\* 4k3/8/8/8/8/8/p7/1N2K3 b - - 0 1
FenBlackPromotion ==
    <<"4", "k", "3", "/", "8", "/", "8", "/", "8", "/", "8", "/", "8", "/", "p", "7", "/", "1", "N", "2", "K", "3", " ", "b", " ", "-", " ", "-", " ", "0", " ", "1">>
\* 4k3/8/8/8/8/8/8/4K3 w - - 255 1
FenClockMax ==
    <<"4", "k", "3", "/", "8", "/", "8", "/", "8", "/", "8", "/", "8", "/", "8", "/", "4", "K", "3", " ", "w", " ", "-", " ", "-", " ", "2", "5", "5", " ", "1">>
\* r3k3/8/8/8/8/8/8/R3K3 w Qq - 0 1
FenRookCapture ==
    <<"r", "3", "k", "3", "/", "8", "/", "8", "/", "8", "/", "8", "/", "8", "/", "8", "/", "R", "3", "K", "3", " ", "w", " ", "Q", "q", " ", "-", " ", "0", " ", "1">>
\* 4k3/8/8/3pP3/8/8/8/4K3 w - d6 0 1
FenEnPassent ==
    <<"4", "k", "3", "/", "8", "/", "8", "/", "3", "p", "P", "3", "/", "8", "/", "8", "/", "8", "/", "4", "K", "3", " ", "w", " ", "-", " ", "d", "6", " ", "0", " ", "1">>
\* 8/2p5/3p4/KP5r/1R3p1k/8/4P1P1/8 w - - 0 1
FenEndgame ==
    <<"8", "/", "2", "p", "5", "/", "3", "p", "4", "/", "K", "P", "5", "r", "/", "1", "R", "3", "p", "1", "k", "/", "8", "/", "4", "P", "1", "P", "1", "/", "8", " ", "w", " ", "-", " ", "-", " ", "0", " ", "1">>

\* 4k3/8/8/8/4P3/8/8/4K3 b - e3 0 1
FenEnPassentNoCapturer ==
    <<"4", "k", "3", "/", "8", "/", "8", "/", "8", "/", "4", "P", "3", "/", "8", "/", "8", "/", "4", "K", "3", " ", "b", " ", "-", " ", "e", "3", " ", "0", " ", "1">>

\* 4K3/8/8/8/kpP4R/8/8/8 b - c3 0 1
FenEnPassentRankBlack ==
    <<"4", "K", "3", "/", "8", "/", "8", "/", "8", "/", "k", "p", "P", "4", "R", "/", "8", "/", "8", "/", "8", " ", "b", " ", "-", " ", "c", "3", " ", "0", " ", "1">>

\* 4k3/7r/8/8/8/8/8/R3K2R b KQ - 0 1
FenCastleThroughCheck ==
    <<"4", "k", "3", "/", "7", "r", "/", "8", "/", "8", "/", "8", "/", "8", "/", "8", "/", "R", "3", "K", "2", "R", " ", "b", " ", "K", "Q", " ", "-", " ", "0", " ", "1">>

\* r3k2r/1R6/8/8/8/8/8/4K3 b kq - 0 1
FenCastleBFileAttacked ==
    <<"r", "3", "k", "2", "r", "/", "1", "R", "6", "/", "8", "/", "8", "/", "8", "/", "8", "/", "8", "/", "4", "K", "3", " ", "b", " ", "k", "q", " ", "-", " ", "0", " ", "1">>

\* 4r2k/8/8/8/4n3/8/4K3/6Q1 b - - 0 1
FenDoubleCheck ==
    <<"4", "r", "2", "k", "/", "8", "/", "8", "/", "8", "/", "4", "n", "3", "/", "8", "/", "4", "K", "3", "/", "6", "Q", "1", " ", "b", " ", "-", " ", "-", " ", "0", " ", "1">>

StartFens ==
    {FenDoubleCheck,
     FenCastleBFileAttacked,
     FenCastleThroughCheck,
     FenEnPassentRankBlack,
     FenEnPassentNoCapturer,
     FenCastleKingside,
     FenEnPassent,
     FenEndgame,
     FenCastleQueenside,
     FenPromotion,
     FenPinnedEnPassent,
     FenEnPassentRank,
     FenDoublePush,
     FenBlackPromotion,
     FenClockMax,
     FenRookCapture}

\* number of made and not yet unmade moves the model explores
MaxPly == 2

\* the threads sharing the table
Threads == {1, 2}
NoCall == [pc |-> "idle", n |-> 0]

\* the evaluator and the table generator as the models of the position and of
\* the transposition table leave them: never used
EvalUnused ==
    /\ params = << >>
    /\ eval = << >>
    /\ luts = << >>
    /\ lookup = << >>

\* the transposition table as the position model leaves it: never used
TableUnused ==
    /\ table = new(0)
    /\ calls = [t \in Threads |-> NoCall]
    /\ writes = {}
    /\ committed = << >>
    /\ last_call = [op |-> "none", n |-> 0]
    /\ slot_history = << >>

\* what the model remembers of a position before a make: the position, whether
\* the make is a null move, and the move made
Snapshot(g, null, moves) == [pos |-> g, null |-> null, moves |-> moves]

\* a position in which the side not to move is not in check
LegalPosition(g) == ~in_check(g, Not(g.current_player))

Init ==
    /\ \E f \in StartFens : game = set_from_fen(f).game
    /\ shadow = <<>>
    /\ expect = game
    /\ last_op = "set_from_fen"
    /\ last_move = <<>>
    /\ panicked = FALSE
    /\ TableUnused
    /\ EvalUnused

\* make_move(m) for a legal move m
MakeMove ==
    /\ ~panicked
    /\ Len(shadow) < MaxPly
    /\ LegalPosition(game)
    /\ \E m \in legal_moves(game) :
          /\ game' = make_move(game, m)
          /\ shadow' = Append(shadow, Snapshot(game, FALSE, <<m>>))
          /\ last_move' = <<m>>
    /\ expect' = game'
    /\ last_op' = "make_move"
    /\ UNCHANGED <<panicked, ttvars, lutvars, params>>
    /\ eval' = << >>

\* make_move in a build with overflow checks: halfmove_clock += 1 panics at 255
MakeMovePanic ==
    /\ ~panicked
    /\ Len(shadow) < MaxPly
    /\ LegalPosition(game)
    /\ game.halfmove_clock = 255
    /\ \E m \in legal_moves(game) :
          /\ game' = MakeMovePushHistory(game, m)
          /\ last_move' = <<m>>
    /\ panicked' = TRUE
    /\ last_op' = "panic"
    /\ UNCHANGED <<shadow, expect, ttvars, lutvars, params>>
    /\ eval' = << >>

\* unmake_move() of the move made last
UnmakeMove ==
    /\ ~panicked
    /\ shadow # <<>>
    /\ ~Last(shadow).null
    /\ game' = unmake_move(game)
    /\ expect' = Last(shadow).pos
    /\ last_move' = Last(shadow).moves
    /\ shadow' = Pop(shadow)
    /\ last_op' = "unmake_move"
    /\ UNCHANGED <<panicked, ttvars, lutvars, params>>
    /\ eval' = << >>

MakeNullMove ==
    /\ ~panicked
    /\ Len(shadow) < MaxPly
    /\ game' = make_null_move(game)
    /\ shadow' = Append(shadow, Snapshot(game, TRUE, <<>>))
    /\ expect' = game'
    /\ last_op' = "make_null_move"
    /\ last_move' = <<>>
    /\ UNCHANGED <<panicked, ttvars, lutvars, params>>
    /\ eval' = << >>

\* make_null_move in a build with overflow checks: halfmove_clock += 1 panics at 255
MakeNullMovePanic ==
    /\ ~panicked
    /\ Len(shadow) < MaxPly
    /\ game.halfmove_clock = 255
    /\ game' = MakeNullMoveHash(game)
    /\ panicked' = TRUE
    /\ last_op' = "panic"
    /\ last_move' = <<>>
    /\ UNCHANGED <<shadow, expect, ttvars, lutvars, params>>
    /\ eval' = << >>

\* unmake_null_move() of the null move made last
UnmakeNullMove ==
    /\ ~panicked
    /\ shadow # <<>>
    /\ Last(shadow).null
    /\ game' = unmake_null_move(game)
    /\ expect' = Last(shadow).pos
    /\ shadow' = Pop(shadow)
    /\ last_op' = "unmake_null_move"
    /\ last_move' = <<>>
    /\ UNCHANGED <<panicked, ttvars, lutvars, params>>
    /\ eval' = << >>

Next ==
    \/ MakeMove
    \/ MakeMovePanic
    \/ UnmakeMove
    \/ MakeNullMove
    \/ MakeNullMovePanic
    \/ UnmakeNullMove

Spec == Init /\ [][Next]_vars

(***************************************************************************)
(* Properties of make_move / unmake_move / the null moves / legal_moves    *)
(***************************************************************************)
\* C1: make_move(m) of a legal move m followed by unmake_move() restores every
\* field of the position (piece and colour masks, combined, side to move,
\* castling flags, en-passant mask, halfmove clock, hash, both history stacks).
C1_MakeUnmakeIdentity == last_op = "unmake_move" => game = expect

\* a castling move has been made and unmade
C1_Witness ==
    /\ last_op = "unmake_move"
    /\ game = expect
    /\ last_move[1].castling

\* C2: after any sequence of make_move (legal moves), unmake_move,
\* make_null_move and unmake_null_move on a parsed position, the hash field
\* equals zobrist_hash() recomputed from scratch.
C2_HashIsZobristHash == ~panicked => game.hash = zobrist_hash(game)

\* a null move was made in a position that had an en-passant square
C2_Witness ==
    /\ last_op = "make_null_move"
    /\ Last(shadow).pos.en_passent_mask # {}
    /\ game.hash = zobrist_hash(game)

\* for each colour the six piece bitboards are pairwise disjoint and their union
\* is the colour's mask; the colour masks are disjoint; combined is their union
MasksConsistent(g) ==
    /\ \A c \in Colors :
          /\ \A p, q \in PieceKinds : p # q => g.piece_masks[c][p] \cap g.piece_masks[c][q] = {}
          /\ UNION {g.piece_masks[c][p] : p \in PieceKinds} = g.color_masks[c]
    /\ g.color_masks[White] \cap g.color_masks[Black] = {}
    /\ g.combined = g.color_masks[White] \cup g.color_masks[Black]

\* C3: after every make_move of a legal move, unmake_move, make_null_move and
\* unmake_null_move the piece masks, colour masks and combined are consistent.
C3_MasksConsistent ==
    last_op \in {"make_move", "unmake_move", "make_null_move", "unmake_null_move"}
        => MasksConsistent(game)

\* a capture has been made and the masks are consistent
C3_Witness ==
    /\ last_op = "make_move"
    /\ Last(game.unmove_history).capture # NoPiece
    /\ MasksConsistent(game)

\* C4: make_null_move() followed by unmake_null_move() restores the position
\* exactly (side to move, en-passant mask, halfmove clock, hash, castling
\* rights, board, both history stacks).
C4_NullMoveSymmetry == last_op = "unmake_null_move" => game = expect

\* a null move made with an en-passant square set has been unmade
C4_Witness ==
    /\ last_op = "unmake_null_move"
    /\ game = expect
    /\ game.en_passent_mask # {}

\* C5: legal_moves() returns exactly the legal moves of the side to move
\* under the rules of chess.
C5_LegalMovesExact ==
    (~panicked /\ LegalPosition(game))
        => MoveKeys(legal_moves(game)) = MoveKeys(RulesLegalMoves(game))

\* the position before the make that was made last and not unmade
BeforeLastMake == Last(shadow).pos

\* the square a double pawn push of the side not to move in g skipped
SkippedSquare(g, target) ==
    IF g.current_player = Black THEN offset(target, 0, -1) ELSE offset(target, 0, 1)

\* sq is attacked by a pawn of the side to move in g
PawnOfMoverAttacks(g, sq) == sq \in pawn_attacks(g, g.current_player)

\* C13: the en-passant mask has at most one bit, and it is non-empty only when
\* the move made last was a double pawn push whose skipped square is attacked
\* by a pawn of the side now to move.  For a position just parsed the move
\* made last is the one the FEN stands for: a pawn of the side not to move
\* stands in front of the en-passant square.
C13_EnPassentMask ==
    ~panicked =>
        /\ count_ones(game.en_passent_mask) <= 1
        /\ game.en_passent_mask # {} =>
              LET ep == first_square(game.en_passent_mask)
              IN  /\ PawnOfMoverAttacks(game, ep)
                  /\ IF shadow = <<>>
                     THEN \E target \in game.piece_masks[Not(game.current_player)][Pawn] :
                             SkippedSquare(game, target) = ep
                     ELSE /\ ~Last(shadow).null
                          /\ Last(shadow).moves[1].double_pawn_push
                          /\ SkippedSquare(game, Last(shadow).moves[1].target) = ep

\* the corner a rook of color castles from on side
RookCorner(color, side) == (IF side = Kingside THEN 7 ELSE 0) + 56 * color

\* C14: castling rights only decrease under make_move: a king move (castling
\* included) clears both flags of the mover, a rook move from a corner clears
\* that side's flag of the mover, a capture of a rook on a corner clears that
\* side's flag of the opponent, and no make sets a flag that was false.
C14_CastlingRightsDecrease ==
    last_op \in {"make_move", "make_null_move"} =>
        /\ \A c \in Colors, side \in {Queenside, Kingside} :
              game.castling_rights[c][side] => BeforeLastMake.castling_rights[c][side]
        /\ last_op = "make_move" =>
              LET m == last_move[1]
                  mover == BeforeLastMake.current_player
              IN  \A side \in {Queenside, Kingside} :
                     /\ m.piece = King => ~game.castling_rights[mover][side]
                     /\ (m.piece = Rook /\ m.start = RookCorner(mover, side))
                           => ~game.castling_rights[mover][side]
                     /\ (Captured(BeforeLastMake, m) = Rook
                            /\ m.target = RookCorner(Not(mover), side))
                           => ~game.castling_rights[Not(mover)][side]

\* a rook that held a right was captured on its corner by a rook leaving its own
\* corner, and both rights are gone
C14_Witness ==
    /\ last_op = "make_move"
    /\ last_move[1].piece = Rook
    /\ last_move[1].start = RookCorner(White, Queenside)
    /\ last_move[1].target = RookCorner(Black, Queenside)
    /\ Captured(BeforeLastMake, last_move[1]) = Rook
    /\ BeforeLastMake.castling_rights[Black][Queenside]
    /\ BeforeLastMake.castling_rights[White][Queenside]
    /\ ~game.castling_rights[Black][Queenside]
    /\ ~game.castling_rights[White][Queenside]

\* C15: after make_move(m) the halfmove clock is 0 when m is a pawn move or a
\* capture (en passant included) and the previous value plus one for every
\* other move; after make_null_move it is the previous value plus one; for
\* every previous value of the u8 field.
C15_HalfmoveClock ==
    /\ last_op = "make_move" =>
          IF last_move[1].piece = Pawn \/ Captured(BeforeLastMake, last_move[1]) # NoPiece
          THEN game.halfmove_clock = 0
          ELSE game.halfmove_clock = BeforeLastMake.halfmove_clock + 1
    /\ last_op = "make_null_move" =>
          game.halfmove_clock = BeforeLastMake.halfmove_clock + 1

\* the en-passant capture m of the side to move in g takes both pawns off the
\* rank of its king and an enemy rook or queen on that rank then sees the king
EnPassentExposesRank(g, m) ==
    LET color == g.current_player
        board == BoardOf(g)
        king_square == KingSquareOf(board, color)
        after == BoardAfter(board, color, m.start, m.target, NoPiece, TRUE, FALSE)
    IN  /\ rank(king_square) = rank(m.start)
        /\ \E from \in Squares :
              /\ after[from] \in {<<Not(color), Rook>>, <<Not(color), Queen>>}
              /\ rank(from) = rank(king_square)
              /\ king_square \in SlideTargets(after, from, <<1, 0>>)
                                   \cup SlideTargets(after, from, <<-1, 0>>)

\* the en-passant captures the pawns of the side to move could make by the way
\* pawns move, king safety aside
EnPassentCandidates(g) ==
    UNION {{pawn_enpassent_capture(sq, t) :
                t \in g.en_passent_mask \cap lookup_pawn_attack(sq, g.current_player)} :
            sq \in g.piece_masks[g.current_player][Pawn]}

\* C18: an en-passant capture that would expose the capturer's own king to an
\* enemy rook or queen along the king's rank, once both pawns have left that
\* rank, is never returned by legal_moves(), for either colour.
C18_EnPassentRankPin ==
    ~panicked =>
        \A m \in legal_moves(game) : m.en_passent => ~EnPassentExposesRank(game, m)

\* a double pawn push has been made, the en-passant capture of the pushed pawn
\* would expose the king along its rank, and legal_moves() returns no
\* en-passant move
C18_Witness ==
    /\ last_op = "make_move"
    /\ last_move[1].double_pawn_push
    /\ \E m \in EnPassentCandidates(game) : EnPassentExposesRank(game, m)
    /\ \A m \in legal_moves(game) : ~m.en_passent

\* the squares between king and rook, and the squares the king crosses and
\* lands on, for a castling move from start to target
CastlingBetween(start, target) ==
    IF target > start THEN {start + 1, start + 2} ELSE {start - 1, start - 2, start - 3}
CastlingCrossed(start, target) ==
    IF target > start THEN {start + 1, start + 2} ELSE {start - 1, start - 2}

\* C19: legal_moves() returns a castling move only when the side to move is not
\* in check, holds the corresponding right, every square between king and rook
\* is empty (two kingside, three queenside), and neither square the king
\* crosses or lands on is attacked by the enemy.
C19_CastlingConditions ==
    ~panicked =>
        \A m \in legal_moves(game) : m.castling =>
            LET color == game.current_player
                board == BoardOf(game)
                side == IF m.target > m.start THEN Kingside ELSE Queenside
            IN  /\ board[m.start] = <<color, King>>
                /\ abs_diff(m.target, m.start) = 2
                /\ ~Attacked(board, m.start, Not(color))
                /\ game.castling_rights[color][side]
                /\ \A sq \in CastlingBetween(m.start, m.target) : board[sq] = <<>>
                /\ \A sq \in CastlingCrossed(m.start, m.target) :
                      ~Attacked(board, sq, Not(color))

\* after a move of the enemy the side to move holds both rights with both ways
\* clear; a square the king would cross kingside is attacked, and only the
\* queenside castling is returned
C19_Witness ==
    LET color == game.current_player
        board == BoardOf(game)
        home == first_square(game.piece_masks[color][King])
    IN  /\ last_op = "make_move"
        /\ game.castling_rights[color][Kingside]
        /\ game.castling_rights[color][Queenside]
        /\ \A sq \in {home + 1, home + 2, home - 1, home - 2, home - 3} : board[sq] = <<>>
        /\ \E sq \in {home + 1, home + 2} : Attacked(board, sq, Not(color))
        /\ {m.target : m \in {x \in legal_moves(game) : x.castling}} = {home - 2}

\* the enemy pieces attacking the king of the side to move
Checkers(g) ==
    LET board == BoardOf(g)
        king_square == KingSquareOf(board, g.current_player)
    IN  {from \in Squares : /\ board[from] # <<>>
                            /\ board[from][1] = Not(g.current_player)
                            /\ king_square \in AttacksFrom(board, from)}

\* C20: when the king of the side to move is attacked by two or more enemy
\* pieces, every move legal_moves() returns is a king move to a square that is
\* neither occupied by an own piece nor attacked by the enemy, the attacks
\* taken with the king removed from the board.
C20_DoubleCheckKingMoves ==
    (~panicked /\ Cardinality(Checkers(game)) >= 2) =>
        LET color == game.current_player
            board == BoardOf(game)
            king_square == KingSquareOf(board, color)
            kingless == [board EXCEPT ![king_square] = <<>>]
        IN  \A m \in legal_moves(game) :
                /\ m.piece = King
                /\ m.start = king_square
                /\ board[m.target] = <<>> \/ board[m.target][1] # color
                /\ ~Attacked(kingless, m.target, Not(color))

\* a move has given double check; the king has a move, and a queen that attacks
\* one of the checkers is given no move
C20_Witness ==
    /\ last_op = "make_move"
    /\ Cardinality(Checkers(game)) >= 2
    /\ legal_moves(game) # {}
    /\ \E sq \in Squares :
          /\ BoardOf(game)[sq] = <<game.current_player, Queen>>
          /\ AttacksFrom(BoardOf(game), sq) \cap Checkers(game) # {}
    /\ \A m \in legal_moves(game) : m.piece = King

(***************************************************************************)
(* fen() and set_from_fen on the positions reached by legal moves          *)
(***************************************************************************)
\* 4k2r/8/8/8/8/8/8/4K3 w k - 0 1
FenBlackKingside ==
    <<"4", "k", "2", "r", "/", "8", "/", "8", "/", "8", "/", "8", "/", "8", "/", "8", "/", "4", "K", "3", " ", "w", " ", "k", " ", "-", " ", "0", " ", "1">>

InitFen ==
    /\ \E f \in StartFens \cup {FenBlackKingside} : game = set_from_fen(f).game
    /\ shadow = <<>>
    /\ expect = game
    /\ last_op = "set_from_fen"
    /\ last_move = <<>>
    /\ panicked = FALSE
    /\ TableUnused
    /\ EvalUnused

\* fen() on a legal position; the string is kept in last_move
Fen ==
    /\ ~panicked
    /\ last_op \in {"set_from_fen", "make_move", "make_null_move"}
    /\ LegalPosition(game)
    /\ last_move' = <<fen(game)>>
    /\ last_op' = "fen"
    /\ UNCHANGED <<game, shadow, expect, panicked, ttvars, lutvars, evalvars>>

\* set_from_fen of the string fen() returned, on a second ChessGame (kept in
\* expect); the position that wrote the string is left as it is
SetFromFen ==
    /\ ~panicked
    /\ last_op = "fen"
    /\ expect' = set_from_fen(last_move[1]).game
    /\ last_op' = IF set_from_fen(last_move[1]).ok THEN "fen_parsed" ELSE "fen_error"
    /\ UNCHANGED <<game, last_move, shadow, panicked, ttvars, lutvars, evalvars>>

NextFen ==
    \/ MakeMove
    \/ MakeNullMove
    \/ Fen
    \/ SetFromFen

SpecFen == InitFen /\ [][NextFen]_vars

\* the fields of a position that a FEN string carries
FenFields(g) ==
    [piece_masks |-> g.piece_masks, color_masks |-> g.color_masks, combined |-> g.combined,
     current_player |-> g.current_player, castling_rights |-> g.castling_rights,
     en_passent_mask |-> g.en_passent_mask, halfmove_clock |-> g.halfmove_clock,
     hash |-> g.hash]

\* C16: for every legal position P, set_from_fen(P.fen()) succeeds and equals P
\* in board, side to move, the four castling flags, en-passant mask, halfmove
\* clock and hash; fen() writes 'q' exactly when Black holds the queenside right.
C16_FenRoundTrip ==
    /\ last_op # "fen_error"
    /\ last_op = "fen_parsed" => FenFields(expect) = FenFields(game)
    /\ last_op = "fen" =>
          ((\E k \in 1..Len(FenCastling(game)) : FenCastling(game)[k] = "q")
              <=> game.castling_rights[Black][Queenside])

(***************************************************************************)
(* set_from_fen on strings with a missing or invalid field.  Each string   *)
(* is 4k3/8/8/8/8/8/8/4K3 w - - 0 1 with one rank or one of the fields     *)
(* after the board replaced, or with trailing fields cut off.              *)
(***************************************************************************)
BaseRanks == <<<<"4", "k", "3">>, <<"8">>, <<"8">>, <<"8">>, <<"8">>, <<"8">>, <<"8">>, <<"4", "K", "3">>>>
BaseFields == <<<<"w">>, <<"-">>, <<"-">>, <<"0">>, <<"1">>>>

RECURSIVE JoinWith(_, _)
\* the fields joined by a separator
JoinWith(fields, sep) ==
    IF Len(fields) = 0 THEN <<>>
    ELSE IF Len(fields) = 1 THEN fields[1]
    ELSE fields[1] \o <<sep>> \o JoinWith(Tail(fields), sep)

FenOf(ranks, fields) ==
    IF Len(fields) = 0 THEN JoinWith(ranks, "/")
    ELSE JoinWith(ranks, "/") \o <<" ">> \o JoinWith(fields, " ")

\* ranks with a character that is no piece letter and no digit 1-8, and ranks
\* that describe 7 or 9 squares
InvalidRanks == {<<"4", "X", "3">>, <<"9">>, <<"0", "8">>, <<"7">>, <<"8", "P">>}
InvalidSides == {<<"x">>, <<"W">>, <<"w", "b">>}
InvalidCastlings == {<<"X">>, <<"K", "x">>}
InvalidEnPassents == {<<"i", "3">>, <<"e", "9">>, <<"e">>, <<"3", "e">>}
InvalidClocks == {<<"x">>, <<"-", "1">>, <<"2", "5", "6">>, <<"1", "x">>}

MalformedFens ==
    {FenOf([BaseRanks EXCEPT ![k] = r], BaseFields) : k \in 1..8, r \in InvalidRanks}
    \cup {FenOf(SubSeq(BaseRanks, 1, 7), BaseFields),
          FenOf(Append(BaseRanks, <<"8">>), BaseFields)}
    \cup {FenOf(BaseRanks, [BaseFields EXCEPT ![1] = x]) : x \in InvalidSides}
    \cup {FenOf(BaseRanks, [BaseFields EXCEPT ![2] = x]) : x \in InvalidCastlings}
    \cup {FenOf(BaseRanks, [BaseFields EXCEPT ![3] = x]) : x \in InvalidEnPassents}
    \cup {FenOf(BaseRanks, [BaseFields EXCEPT ![4] = x]) : x \in InvalidClocks}
    \cup {FenOf(BaseRanks, SubSeq(BaseFields, 1, n)) : n \in 0..4}

InitMalformed ==
    /\ game = DefaultGame
    /\ shadow = <<>>
    /\ expect = DefaultGame
    /\ last_op = "malformed_fen"
    /\ \E f \in MalformedFens : last_move = <<f>>
    /\ panicked = FALSE
    /\ TableUnused
    /\ EvalUnused

\* set_from_fen on the malformed string
SetFromMalformedFen ==
    /\ last_op = "malformed_fen"
    /\ game' = set_from_fen(last_move[1]).game
    /\ last_op' = IF set_from_fen(last_move[1]).ok THEN "fen_ok" ELSE "fen_error"
    /\ UNCHANGED <<last_move, shadow, expect, panicked, ttvars, lutvars, evalvars>>

\* set_from_fen in a build with overflow checks: `1 << index` panics at index 64
SetFromFenShiftPanic ==
    /\ last_op = "malformed_fen"
    /\ ShiftOverflows(last_move[1])
    /\ panicked' = TRUE
    /\ last_op' = "panic"
    /\ UNCHANGED <<game, last_move, shadow, expect, ttvars, lutvars, evalvars>>

NextMalformed ==
    \/ SetFromMalformedFen
    \/ SetFromFenShiftPanic

SpecMalformed == InitMalformed /\ [][NextMalformed]_vars

\* C17: set_from_fen returns an error, never Ok and never a panic, when one of
\* the six FEN fields is missing or invalid.
C17_MalformedFenIsError ==
    last_op # "malformed_fen" => last_op = "fen_error"

(***************************************************************************)
(* The transposition table shared by two threads.  Every load and store of *)
(* an atomic word is a step of its own; the arguments come from small sets *)
(* of hashes that share their index bits and of depths and scores that     *)
(* differ in the bytes the depth test and the packing look at.             *)
(***************************************************************************)
\* calls a thread makes
MaxCalls == 1

Hashes == {{}, {40}}
Depths == {0, 2}
Scores == {0, -1}
BestMoves == {pawn_push(8, 16)}
NodeTypes == {Exact}

\* the tables the threads start on: a new one, and one whose entry 0 was set
\* before the threads started
PriorSets == {<<{40}, 0, 16777216>>, <<{}, 2, 0>>}
PriorTables ==
    {[table |-> new(1), writes |-> {}]}
    \cup {[table |-> set(new(1), p[1], pawn_push(8, 16), p[2], p[3], Exact),
           writes |-> {<<p[1], PackData(pawn_push(8, 16), p[2], p[3], Exact)>>}] :
            p \in PriorSets}

\* the position model as the table model leaves it: never used
GameUnused ==
    /\ game = DefaultGame
    /\ shadow = << >>
    /\ expect = DefaultGame
    /\ last_op = "none"
    /\ last_move = << >>

InitTT ==
    /\ GameUnused
    /\ EvalUnused
    /\ panicked = FALSE
    /\ \E prior \in PriorTables :
          /\ table = prior.table
          /\ writes = prior.writes
    /\ calls = [t \in Threads |-> NoCall]
    /\ committed = << >>
    /\ last_call = [op |-> "none", n |-> 0]
    /\ slot_history = << >>

CanCall(t) == calls[t].pc \in {"idle", "set_done", "set_discarded", "get_done"}
                /\ calls[t].n < MaxCalls

\* who stored the key and the data of the entry at index last (0: nobody)
CommittedAt(index) ==
    IF index \in DOMAIN committed THEN committed[index] ELSE [key_by |-> 0, data_by |-> 0]
Commit(index, c) ==
    [i \in DOMAIN committed \cup {index} |-> IF i = index THEN c ELSE committed[i]]

\* set, lines 92-115: the index, the load of the stored data, the depth test
\* and the packing of the new data word
SetLoadData(t) ==
    /\ CanCall(t)
    /\ \E hash \in Hashes, best_move \in BestMoves, depth \in Depths,
          score \in Scores, node_type \in NodeTypes :
          LET index == EntryIndex(table, hash)
              data == PackData(best_move, depth, score, node_type)
              passes == index # NULL /\ ~DepthPreferred(EntryAt(table, index).data, depth)
          IN  /\ calls' = [calls EXCEPT ![t] =
                    [pc |-> IF passes THEN "store_key" ELSE "set_discarded",
                     n |-> calls[t].n + 1, hash |-> hash, depth |-> depth,
                     index |-> index, data |-> data]]
              /\ writes' = IF passes THEN writes \cup {<<hash, data>>} ELSE writes
    /\ UNCHANGED <<table, committed, last_call, slot_history, gamevars, lutvars, evalvars, panicked>>

\* set, line 117
SetKeyStore(t) ==
    /\ calls[t].pc = "store_key"
    /\ table' = SetStoreKey(table, calls[t].index, calls[t].hash, calls[t].data)
    /\ committed' = Commit(calls[t].index, [CommittedAt(calls[t].index) EXCEPT !.key_by = t])
    /\ calls' = [calls EXCEPT ![t].pc = "store_data"]
    /\ UNCHANGED <<writes, last_call, slot_history, gamevars, lutvars, evalvars, panicked>>

\* set, line 118
SetDataStore(t) ==
    /\ calls[t].pc = "store_data"
    /\ table' = SetStoreData(table, calls[t].index, calls[t].data)
    /\ committed' = Commit(calls[t].index, [CommittedAt(calls[t].index) EXCEPT !.data_by = t])
    /\ calls' = [calls EXCEPT ![t].pc = "set_done"]
    /\ UNCHANGED <<writes, last_call, slot_history, gamevars, lutvars, evalvars, panicked>>

\* get, lines 123-128: the index and the load of the data word
GetLoadData(t) ==
    /\ CanCall(t)
    /\ \E hash \in Hashes :
          LET index == EntryIndex(table, hash)
          IN  calls' = [calls EXCEPT ![t] =
                  IF index = NULL
                  THEN [pc |-> "get_done", n |-> calls[t].n + 1, hash |-> hash,
                        index |-> index, result |-> None]
                  ELSE [pc |-> "load_key", n |-> calls[t].n + 1, hash |-> hash,
                        index |-> index, data |-> EntryAt(table, index).data]]
    /\ UNCHANGED <<table, writes, committed, last_call, slot_history, gamevars, lutvars, evalvars, panicked>>

\* get, lines 130-136: the load of the key word and the validation
GetLoadKey(t) ==
    /\ calls[t].pc = "load_key"
    /\ calls' = [calls EXCEPT ![t] =
            [pc |-> "get_done", n |-> calls[t].n, hash |-> calls[t].hash,
             index |-> calls[t].index,
             result |-> GetResult(EntryAt(table, calls[t].index).key,
                                  calls[t].data, calls[t].hash)]]
    /\ UNCHANGED <<table, writes, committed, last_call, slot_history, gamevars, lutvars, evalvars, panicked>>

NextTT ==
    \E t \in Threads :
        \/ SetLoadData(t)
        \/ SetKeyStore(t)
        \/ SetDataStore(t)
        \/ GetLoadData(t)
        \/ GetLoadKey(t)

SpecTT == InitTT /\ [][NextTT]_vars

\* C6: a get(h) that returns Some(e) returns the fields packed by one single
\* set(h, ...) call; a get of a torn entry or of an entry never written
\* returns None.
C6_GetReturnsOneSet ==
    \A t \in Threads :
        (calls[t].pc = "get_done" /\ calls[t].result.some)
            => \E w \in writes :
                  w[1] = calls[t].hash /\ from_data(w[2]) = calls[t].result.entry

\* both threads have finished a set that passed the depth test, on one entry
BothSetsDone(index) ==
    \A t \in Threads : calls[t].pc = "set_done" /\ calls[t].index = index

\* C9 as stated: after two sets of one entry that both passed the depth test
\* the entry holds the key and the data of the thread whose key store was
\* committed last, and a get with that thread's hash returns its entry.
C9_KeyStoreLastWins ==
    \A index \in DOMAIN committed :
        BothSetsDone(index) =>
            LET winner == calls[committed[index].key_by]
            IN  /\ EntryAt(table, index).key = Xor(winner.hash, winner.data)
                /\ EntryAt(table, index).data = winner.data
                /\ get(table, winner.hash) = Some(from_data(winner.data))

\* C9 amended: the entry holds the key of the thread whose key store was
\* committed last and the data of the thread whose data store was committed
\* last; a get with the hash of the former returns its entry when the two data
\* words are equal and None when they differ.
C9_LastStoresWin ==
    \A index \in DOMAIN committed :
        BothSetsDone(index) =>
            LET key_last == calls[committed[index].key_by]
                data_last == calls[committed[index].data_by]
            IN  /\ EntryAt(table, index).key = Xor(key_last.hash, key_last.data)
                /\ EntryAt(table, index).data = data_last.data
                /\ get(table, key_last.hash) =
                      IF key_last.data = data_last.data
                      THEN Some(from_data(key_last.data)) ELSE None

\* the two sets overlapped: the key of one thread and the data of the other
\* were committed last, and the data words differ
C9_Witness ==
    \E index \in DOMAIN committed :
        /\ BothSetsDone(index)
        /\ committed[index].key_by # committed[index].data_by
        /\ calls[1].data # calls[2].data
        /\ get(table, calls[committed[index].key_by].hash) = None

(***************************************************************************)
(* The transposition table used by one thread: new, set_size, set and get  *)
(* are calls that do not overlap.                                          *)
(***************************************************************************)
\* calls made after new
MaxSeqCalls == 3
\* largest size in MB asked of new and set_size
MaxSizeMb == 3

NoHistory == [last_set |-> << >>, last_write |-> << >>]
HistoryAt(index) ==
    IF index \in DOMAIN slot_history THEN slot_history[index] ELSE NoHistory
Record(index, h) ==
    [i \in DOMAIN slot_history \cup {index} |-> IF i = index THEN h ELSE slot_history[i]]

InitTTSeq ==
    /\ GameUnused
    /\ EvalUnused
    /\ panicked = FALSE
    /\ \E size_mb \in 0..MaxSizeMb :
          /\ table = new(size_mb)
          /\ last_call = [op |-> "new", n |-> 0, size_mb |-> size_mb]
    /\ calls = [t \in Threads |-> NoCall]
    /\ writes = {}
    /\ committed = << >>
    /\ slot_history = << >>

CanCallSeq == ~panicked /\ last_call.n < MaxSeqCalls

\* set_size(size_mb)
SetSize ==
    /\ CanCallSeq
    /\ \E size_mb \in 0..MaxSizeMb :
          /\ table' = set_size(table, size_mb)
          /\ last_call' = [op |-> "set_size", n |-> last_call.n + 1, size_mb |-> size_mb]
    /\ slot_history' = [i \in {j \in DOMAIN slot_history : j < table'.len} |-> slot_history[i]]
    /\ UNCHANGED <<calls, writes, committed, gamevars, lutvars, evalvars, panicked>>

\* set(hash, best_move, depth, score, node_type)
Set ==
    /\ CanCallSeq
    /\ \E hash \in Hashes, best_move \in BestMoves, depth \in Depths,
          score \in Scores, node_type \in NodeTypes :
          LET index == EntryIndex(table, hash)
              data == PackData(best_move, depth, score, node_type)
              before == EntryAt(table, index)
              discarded == index # NULL /\ DepthPreferred(before.data, depth)
              this == [hash |-> hash, depth |-> depth, data |-> data,
                       discarded |-> discarded, before |-> before]
          IN  /\ table' = set(table, hash, best_move, depth, score, node_type)
              /\ last_call' = [op |-> "set", n |-> last_call.n + 1, hash |-> hash,
                               depth |-> depth, data |-> data, index |-> index,
                               before |-> before, discarded |-> discarded]
              /\ slot_history' =
                    IF index = NULL THEN slot_history
                    ELSE Record(index,
                                [last_set |-> <<this>>,
                                 last_write |-> IF discarded THEN HistoryAt(index).last_write
                                                ELSE <<this>>])
              /\ writes' = IF index # NULL /\ ~discarded
                           THEN writes \cup {<<hash, data>>} ELSE writes
    /\ UNCHANGED <<calls, committed, gamevars, lutvars, evalvars, panicked>>

\* get(hash)
Get ==
    /\ CanCallSeq
    /\ \E hash \in Hashes :
          last_call' = [op |-> "get", n |-> last_call.n + 1, hash |-> hash,
                        index |-> EntryIndex(table, hash), result |-> get(table, hash)]
    /\ UNCHANGED <<table, calls, writes, committed, slot_history, gamevars, lutvars, evalvars, panicked>>

\* set or get on a table of length 0 in a build with overflow checks:
\* table.len() - 1 panics
IndexPanic ==
    /\ CanCallSeq
    /\ table.len = 0
    /\ panicked' = TRUE
    /\ last_call' = [op |-> "panic", n |-> last_call.n + 1]
    /\ UNCHANGED <<table, calls, writes, committed, slot_history, gamevars, lutvars, evalvars>>

NextTTSeq ==
    \/ SetSize
    \/ Set
    \/ Get
    \/ IndexPanic

SpecTTSeq == InitTTSeq /\ [][NextTTSeq]_vars

\* C7: set leaves the entry unchanged when the depth decoded from its stored
\* data word (bits 32..39) is greater than the depth argument, and otherwise
\* overwrites its key and data with the new entry.
C7_DepthPreferredReplacement ==
    (last_call.op = "set" /\ last_call.index # NULL) =>
        IF from_data(last_call.before.data).depth > last_call.depth
        THEN EntryAt(table, last_call.index) = last_call.before
        ELSE EntryAt(table, last_call.index) =
                [key |-> Xor(last_call.hash, last_call.data), data |-> last_call.data]

\* C8: of calls that do not overlap, a get(h) returns the entry written by the
\* latest set at its index, or None; it returns None after a set(h, ...) only
\* when that set was discarded because the entry held a greater depth.
C8_GetAfterSet ==
    (last_call.op = "get" /\ last_call.index # NULL) =>
        LET h == HistoryAt(last_call.index)
        IN  IF last_call.result.some
            THEN /\ h.last_write # << >>
                 /\ h.last_write[1].hash = last_call.hash
                 /\ last_call.result.entry = from_data(h.last_write[1].data)
            ELSE (h.last_set # << >> /\ h.last_set[1].hash = last_call.hash) =>
                    /\ h.last_set[1].discarded
                    /\ from_data(h.last_set[1].before.data).depth > h.last_set[1].depth

\* C12: on every table made by new(size_mb), size_mb >= 0, set returns and get
\* returns Some or None without a panic: no index underflow, and no node type
\* outside Exact, UpperBound, LowerBound is decoded.
C12_SetGetInfallible ==
    /\ ~panicked
    /\ (last_call.op = "get" /\ last_call.result.some)
          => last_call.result.entry.node_type \in {Exact, UpperBound, LowerBound}

RECURSIVE RoundDownFrom(_, _)
RoundDownFrom(n, p) == IF 2 * p > n THEN p ELSE RoundDownFrom(n, 2 * p)
\* the largest power of two that is at most n, for n >= 1
RoundDownToPowerOfTwo(n) == RoundDownFrom(n, 1)

\* C10: the number of entries after new(size_mb) or set_size(size_mb) is
\* floor(size_bytes / sizeof(Entry)) rounded down to a power of two, never more
\* entries than the requested bytes allow.
C10_TableLength ==
    last_call.op \in {"new", "set_size"} =>
        LET size_bytes == last_call.size_mb * 1024 * 1024
            entries == size_bytes \div SizeOfEntry
        IN  /\ table.len * SizeOfEntry <= size_bytes
            /\ entries >= 1 => table.len = RoundDownToPowerOfTwo(entries)

(***************************************************************************)
(* The data word of one entry: a set into a never written entry of a new   *)
(* table, then a get of the same hash.  The arguments cover the ends of    *)
(* each field of the word.                                                 *)
(***************************************************************************)
WireScores == {-2147483647 - 1, -1, 0, 16777216, 2147483647}
WireDepths == {-128, -1, 0, 1, 127}
WireStarts == {0, 21, 63}
WireTargets == {0, 63}
WirePromotions == PieceKinds \cup {NoPiece}
WireNodeTypes == {Exact, UpperBound, LowerBound}
WireHashes == {{}, {3, 40, 63}}

InitTTWire ==
    /\ GameUnused
    /\ EvalUnused
    /\ panicked = FALSE
    /\ table = new(1)
    /\ last_call = [op |-> "new", n |-> 0, size_mb |-> 1]
    /\ calls = [t \in Threads |-> NoCall]
    /\ writes = {}
    /\ committed = << >>
    /\ slot_history = << >>

\* set(hash, best_move, depth, score, node_type) on the new table
SetNewTable ==
    /\ last_call.op = "new"
    /\ \E hash \in WireHashes, score \in WireScores, depth \in WireDepths,
          start \in WireStarts, target \in WireTargets, promotion \in WirePromotions,
          node_type \in WireNodeTypes, double_pawn_push \in BOOLEAN,
          en_passent \in BOOLEAN, castling \in BOOLEAN :
          LET best_move == MoveNew(start, target, Pawn, promotion, NoPiece,
                                   double_pawn_push, en_passent, castling)
          IN  /\ table' = set(table, hash, best_move, depth, score, node_type)
              /\ last_call' = [op |-> "set", n |-> 1, hash |-> hash,
                               best_move |-> best_move, depth |-> depth,
                               score |-> score, node_type |-> node_type]
    /\ UNCHANGED <<calls, writes, committed, slot_history, gamevars, lutvars, evalvars, panicked>>

\* get(hash) of the hash just set
GetHashSet ==
    /\ last_call.op = "set"
    /\ last_call' = [op |-> "get", n |-> 2, hash |-> last_call.hash,
                     best_move |-> last_call.best_move, depth |-> last_call.depth,
                     score |-> last_call.score, node_type |-> last_call.node_type,
                     result |-> get(table, last_call.hash)]
    /\ UNCHANGED <<table, calls, writes, committed, slot_history, gamevars, lutvars, evalvars, panicked>>

NextTTWire ==
    \/ SetNewTable
    \/ GetHashSet

SpecTTWire == InitTTWire /\ [][NextTTWire]_vars

\* the value of bits lo..hi of a word
BitField(word, lo, hi) == NatOfBits({i - lo : i \in word \cap (lo..hi)})

\* C11: a set(h, ...) into an empty slot followed by get(h) returns an entry
\* whose score, depth, move_start, move_target, promotion, node_type and three
\* flags equal the written values, and the stored data word holds the score in
\* bits 0..31, the depth in 32..39, the start in 40..47, the target in 48..55,
\* the promotion in 56..58, the node type in 59..60 and the flags in 61, 62, 63.
C11_PackRoundTrip ==
    last_call.op = "get" =>
        LET result == last_call.result
            data == EntryAt(table, EntryIndex(table, last_call.hash)).data
            m == last_call.best_move
        IN  /\ result = Some([score |-> last_call.score,
                              depth |-> last_call.depth,
                              move_start |-> m.start,
                              move_target |-> m.target,
                              promotion |-> m.promotion,
                              node_type |-> last_call.node_type,
                              double_pawn_push |-> m.double_pawn_push,
                              en_passent_capture |-> m.en_passent,
                              castling |-> m.castling])
            /\ data \cap (0..31) = ScoreAsU32(last_call.score)
            /\ BitField(data, 32, 39) = (last_call.depth + 256) % 256
            /\ BitField(data, 40, 47) = m.start
            /\ BitField(data, 48, 55) = m.target
            /\ BitField(data, 56, 58) = m.promotion
            /\ BitField(data, 59, 60) = last_call.node_type
            /\ (61 \in data) = m.double_pawn_push
            /\ (62 \in data) = m.en_passent
            /\ (63 \in data) = m.castling

\* an entry with the least score, a negative depth, no promotion, the last
\* node type and the castling flag has been written and read back
C11_Witness ==
    /\ last_call.op = "get"
    /\ last_call.score = -2147483647 - 1
    /\ last_call.depth = -128
    /\ last_call.best_move.promotion = NoPiece
    /\ last_call.node_type = LowerBound
    /\ last_call.best_move.castling
    /\ last_call.best_move.start = 63
    /\ last_call.result.some
    /\ last_call.result.entry.score = last_call.score
    /\ last_call.result.entry.depth = last_call.depth


(***************************************************************************)
(* The evaluator on the positions reached by legal moves                   *)
(***************************************************************************)
\* NNn5/KP6/BB6/RN6/Q7/Q7/Q4Q2/7k w - - 0 1: knights, bishops, rooks and queens
\* weigh 24 and the pawn on b7 promotes by taking the knight that gives check
FenPromotionOverComplement ==
    <<"N", "N", "n", "5", "/", "K", "P", "6", "/", "B", "B", "6", "/", "R", "N", "6", "/", "Q", "7", "/", "Q", "7", "/", "Q", "4", "Q", "2", "/", "7", "k", " ", "w", " ", "-", " ", "-", " ", "0", " ", "1">>

\* 4k3/8/8/3n4/8/8/4P3/R3K3 w Q - 0 1: the rook reaches the seventh rank and the
\* knight stands where the pawn on e2 attacks after a push
FenRookAndKnight ==
    <<"4", "k", "3", "/", "8", "/", "8", "/", "3", "n", "4", "/", "8", "/", "8", "/", "4", "P", "3", "/", "R", "3", "K", "3", " ", "w", " ", "Q", " ", "-", " ", "0", " ", "1">>

\* the seeds of the parameter tables the evaluator is run with
ParamSeeds == {1, 2}

EvalFens ==
    {FenPromotionOverComplement, FenRookAndKnight, FenEndgame}

\* the position with the colours of all pieces exchanged and the board mirrored
\* vertically; the side to move stays
swap_colors(g) ==
    LET mirror(bb) == {relative_board_index(sq, Black) : sq \in bb}
    IN  [g EXCEPT !.piece_masks = [c \in Colors |-> [piece \in PieceKinds |->
                                      mirror(g.piece_masks[Not(c)][piece])]],
                  !.color_masks = [c \in Colors |-> mirror(g.color_masks[Not(c)])],
                  !.combined = mirror(g.combined),
                  !.castling_rights = [c \in Colors |-> g.castling_rights[Not(c)]],
                  !.en_passent_mask = mirror(g.en_passent_mask)]

InitEval ==
    /\ \E f \in EvalFens : game = set_from_fen(f).game
    /\ shadow = <<>>
    /\ expect = game
    /\ last_op = "set_from_fen"
    /\ last_move = <<>>
    /\ panicked = FALSE
    /\ TableUnused
    /\ \E seed \in ParamSeeds : params = EvalParamsOf(seed)
    /\ eval = << >>
    /\ luts = << >>
    /\ lookup = << >>

\* game_phase(), evaluate::<()>() and evaluate::<EvalTrace>() on a legal
\* position, evaluate::<()>() on the position with the colours swapped, and the
\* rooks-on-seventh term of evaluate_rooks for each colour
Evaluate ==
    /\ ~panicked
    /\ last_op # "evaluate"
    /\ LegalPosition(game)
    /\ eval' = <<[phase |-> game_phase(game),
                  untraced |-> evaluate(game, params, FALSE),
                  traced |-> evaluate(game, params, TRUE),
                  swapped |-> evaluate(swap_colors(game), params, FALSE),
                  rooks_on_seventh |->
                      [c \in Colors |->
                          RooksOnSeventh(game, [mg |-> 0, eg |-> 0, trace |-> NoTrace],
                                         FALSE, c, EvalInfo(game), params)]]>>
    /\ last_op' = "evaluate"
    /\ UNCHANGED <<game, shadow, expect, last_move, panicked, params, ttvars, lutvars>>

NextEval ==
    \/ MakeMove
    \/ UnmakeMove
    \/ Evaluate

SpecEval == InitEval /\ [][NextEval]_vars

\* the weighted count of the knights and bishops (1), rooks (2) and queens (4)
\* of both colours standing on the board
Remaining(g) ==
    LET weight(kind) == CASE kind = Knight -> 1 [] kind = Bishop -> 1
                          [] kind = Rook -> 2 [] kind = Queen -> 4 [] OTHER -> 0
        standing(kind) == Cardinality({sq \in Squares : BoardOf(g)[sq] # <<>> /\ BoardOf(g)[sq][2] = kind})
    IN  weight(Knight) * standing(Knight) + weight(Bishop) * standing(Bishop)
        + weight(Rook) * standing(Rook) + weight(Queen) * standing(Queen)

\* C21: game_phase() is in [0, 256] for every position reached by legal play,
\* promotions beyond the starting complement included, and equals
\* 256 * (24 - remaining) / 24 for the weighted count remaining.
C21_GamePhaseRange ==
    last_op = "evaluate" =>
        /\ eval[1].phase \in 0..256
        /\ eval[1].phase = div_i32(256 * (24 - Remaining(game)), 24)


\* C22: evaluate with the tracing target (EvalTrace) and with the no-op target
\* (unit type) return the same score for every position: recording the
\* per-term counters never changes the mg or eg sums.
C22_TraceKeepsScore ==
    last_op = "evaluate" => eval[1].traced.score = eval[1].untraced.score

\* an evaluation whose tracing run counted terms of both colours and whose
\* no-op run left the unit trace
C22_Witness ==
    /\ last_op = "evaluate"
    /\ shadow # <<>>
    /\ eval[1].untraced.trace = NoTrace
    /\ eval[1].traced.trace # DefaultTrace
    /\ \A c \in Colors : \E sq \in Squares : eval[1].traced.trace.king_placement[sq][c] = 1
    /\ eval[1].traced.score = eval[1].untraced.score
    /\ eval[1].traced.score # 0

\* C23: for every position P without en-passant rights
\* evaluate(swap_colors(P)) = -evaluate(P): every term is computed by
\* colour-mirrored definitions for White and Black.
C23_SideSwapAntisymmetry ==
    (last_op = "evaluate" /\ game.en_passent_mask = {}) =>
        eval[1].swapped.score = -eval[1].untraced.score

\* the rooks of a colour on its seventh rank, counted square by square
RooksOnRelativeSeventh(g, c) ==
    Cardinality({sq \in Squares : /\ BoardOf(g)[sq] = <<c, Rook>>
                                  /\ rank(sq) = IF c = White THEN 6 ELSE 1})

\* C24: the rook-on-seventh term of evaluate_rooks adds the midgame parameter
\* times the number of own rooks on the colour's seventh rank to mg, the endgame
\* parameter times that number to eg, and nothing else to either.
C24_RookOnSeventh ==
    last_op = "evaluate" =>
        \A c \in Colors :
            /\ eval[1].rooks_on_seventh[c].mg
                 = params.rook_on_seventh[Midgame] * RooksOnRelativeSeventh(game, c)
            /\ eval[1].rooks_on_seventh[c].eg
                 = params.rook_on_seventh[Endgame] * RooksOnRelativeSeventh(game, c)


(***************************************************************************)
(* is_pseudolegal on the positions reached by legal moves.  The start      *)
(* square is every occupied square and one empty square, the target every  *)
(* square of the board.                                                    *)
(***************************************************************************)
\* 4k3/8/8/8/8/2n5/8/1N2K1N1 w - - 0 1
FenTwoKnights ==
    <<"4", "k", "3", "/", "8", "/", "8", "/", "8", "/", "8", "/", "2", "n", "5", "/", "8", "/", "1", "N", "2", "K", "1", "N", "1", " ", "w", " ", "-", " ", "-", " ", "0", " ", "1">>

PseudoFens ==
    {FenTwoKnights, FenCastleKingside, FenCastleQueenside, FenPromotion, FenEnPassent, FenDoublePush}

InitPseudo ==
    /\ \E f \in PseudoFens : game = set_from_fen(f).game
    /\ shadow = <<>>
    /\ expect = game
    /\ last_op = "set_from_fen"
    /\ last_move = <<>>
    /\ panicked = FALSE
    /\ TableUnused
    /\ EvalUnused

\* is_pseudolegal(start, target) on a legal position; the call and its result
\* are kept in last_move
IsPseudolegal ==
    /\ ~panicked
    /\ last_op # "is_pseudolegal"
    /\ LegalPosition(game)
    /\ \E start \in game.combined \cup {first_square(inverse(game.combined))}, target \in Squares :
          last_move' = <<[start |-> start, target |-> target,
                          result |-> is_pseudolegal(game, start, target)]>>
    /\ last_op' = "is_pseudolegal"
    /\ UNCHANGED <<game, shadow, expect, panicked, ttvars, lutvars, evalvars>>

NextPseudo ==
    \/ MakeMove
    \/ IsPseudolegal

SpecPseudo == InitPseudo /\ [][NextPseudo]_vars

\* C25: is_pseudolegal(m.start, m.target) is true for every move m that
\* legal_moves() returns: normal moves, captures, double pushes, en-passant
\* captures, promotions and castling.
C25_LegalMovesArePseudolegal ==
    last_op = "is_pseudolegal" =>
        \A m \in legal_moves(game) :
            (m.start = last_move[1].start /\ m.target = last_move[1].target)
                => last_move[1].result

\* C30: is_pseudolegal(start, target) with start # target is true only if the
\* piece on start belongs to the side to move, that piece can reach target
\* under its own movement rule given the blockers, and target holds no own piece.
C30_PseudolegalOnlyIfReachable ==
    (/\ last_op = "is_pseudolegal"
     /\ last_move[1].start # last_move[1].target
     /\ last_move[1].result) =>
        LET board == BoardOf(game)
            color == game.current_player
            start == last_move[1].start
            target == last_move[1].target
        IN  /\ board[start] # <<>>
            /\ board[start][1] = color
            /\ board[target] = <<>> \/ board[target][1] # color
            /\ \E c \in RulesPseudoLegal(game, board, color) :
                  c.start = start /\ c.target = target

(***************************************************************************)
(* The magic table generator (src/lookup_tables.rs): masks, reference      *)
(* attacks, the magic hash, find_magic and the lookups of LookupTables.    *)
(* A u64 is the set of its set bits; wrapping_mul is the product mod 2^64. *)
(***************************************************************************)
\* the carry into bit i of a + b: some lower bit generates it (set in both) and
\* every bit in between propagates it (set in one)
CarryInto(a, b, i) ==
    \E j \in 0..(i - 1) :
        /\ j \in a /\ j \in b
        /\ \A k \in (j + 1)..(i - 1) : k \in a \/ k \in b

wrapping_add(a, b) ==
    {i \in Squares : ((i \in a) # (i \in b)) # CarryInto(a, b, i)}

RECURSIVE MulBits(_, _, _)
MulBits(a, bits, acc) ==
    IF bits = {} THEN acc
    ELSE LET k == first_square(bits)
         IN  MulBits(a, bits \ {k}, wrapping_add(acc, Shl(a, k)))

wrapping_mul(a, b) == MulBits(a, b, {})

magic_hash(blocking_mask, magic, shift) ==
    NatOfBits(Shr(wrapping_mul(blocking_mask, magic), 64 - shift))

RECURSIVE IndexToBlockingMaskLoop(_, _, _, _, _)
IndexToBlockingMaskLoop(index, i, num_blockers, mask, result) ==
    IF i >= num_blockers THEN result
    ELSE LET first_blocker == first_square(mask)
         IN  IndexToBlockingMaskLoop(index, i + 1, num_blockers, Xor(mask, {first_blocker}),
                IF (index \div (2 ^ i)) % 2 # 0 THEN result \cup {first_blocker} ELSE result)

index_to_blocking_mask(index, num_blockers, mask) ==
    IndexToBlockingMaskLoop(index, 0, num_blockers, mask, {})

rook_mask(square) ==
    {file(square) + y * 8 : y \in (rank(square) + 1)..6}
        \cup {file(square) + y * 8 : y \in 0..(rank(square) - 2)}
        \cup {x + rank(square) * 8 : x \in (file(square) + 1)..6}
        \cup {x + rank(square) * 8 : x \in 0..(file(square) - 2)}

\* the squares one diagonal loop visits when nothing stops it: from (x, y) in
\* steps of (dx, dy) while x < 7 (dx = 1) or x > 0 (dx = -1), and y likewise
RECURSIVE DiagonalLoop(_, _, _, _)
DiagonalLoop(x, y, dx, dy) ==
    IF (IF dx = 1 THEN x < 7 ELSE x > 0) /\ (IF dy = 1 THEN y < 7 ELSE y > 0)
    THEN <<x + y * 8>> \o DiagonalLoop(x + dx, y + dy, dx, dy)
    ELSE << >>

\* the squares a loop sets when it breaks after the first blocker
RECURSIVE BreakAtBlocker(_, _)
BreakAtBlocker(visited, blocking_mask) ==
    IF visited = << >> THEN {}
    ELSE {Head(visited)} \cup (IF Head(visited) \in blocking_mask THEN {}
                               ELSE BreakAtBlocker(Tail(visited), blocking_mask))

bishop_mask(square) ==
    UNION {BreakAtBlocker(DiagonalLoop(file(square) + d[1], rank(square) + d[2], d[1], d[2]), {}) :
            d \in {<<1, 1>>, <<-1, 1>>, <<-1, -1>>, <<1, -1>>}}

\* rook_attacks of the generator: up, down, right, left
reference_rook_attacks(square, blocking_mask) ==
    BreakAtBlocker([k \in 1..(7 - rank(square)) |-> file(square) + (rank(square) + k) * 8], blocking_mask)
        \cup BreakAtBlocker([k \in 1..(rank(square) - 1) |-> file(square) + (rank(square) - 1 - k) * 8], blocking_mask)
        \cup BreakAtBlocker([k \in 1..(7 - file(square)) |-> (file(square) + k) + rank(square) * 8], blocking_mask)
        \cup BreakAtBlocker([k \in 1..(file(square) - 1) |-> (file(square) - 1 - k) + rank(square) * 8], blocking_mask)

\* bishop_attacks of the generator
reference_bishop_attacks(square, blocking_mask) ==
    UNION {BreakAtBlocker(DiagonalLoop(file(square) + d[1], rank(square) + d[2], d[1], d[2]), blocking_mask) :
            d \in {<<1, 1>>, <<-1, 1>>, <<-1, -1>>, <<1, -1>>}}

ReferenceAttacks(square, bishop, blocking_mask) ==
    IF bishop THEN reference_bishop_attacks(square, blocking_mask)
    ELSE reference_rook_attacks(square, blocking_mask)

MaskOf(square, bishop) == IF bishop THEN bishop_mask(square) ELSE rook_mask(square)

\* one pass of the inner loop of find_magic, for blocker subset i: nothing once
\* the attempt has failed (the break)
MagicStep(square, bishop, magic, n, i, attempt) ==
    LET blocking_mask == index_to_blocking_mask(i, n, MaskOf(square, bishop))
        attack_mask == ReferenceAttacks(square, bishop, blocking_mask)
        index == magic_hash(blocking_mask, magic, n)
    IN  IF attempt.failed THEN attempt
        ELSE IF attempt.used[index] = {}
        THEN [attempt EXCEPT !.used[index] = attack_mask]
        ELSE IF attempt.used[index] # attack_mask
        THEN [attempt EXCEPT !.failed = TRUE]
        ELSE attempt

\* one attempt of find_magic with one magic: the passes for the blocker subsets
\* lo..(hi - 1) in order, evaluated half by half
RECURSIVE MagicAttempt(_, _, _, _, _, _, _)
MagicAttempt(square, bishop, magic, n, lo, hi, attempt) ==
    IF hi - lo = 1 THEN MagicStep(square, bishop, magic, n, lo, attempt)
    ELSE LET mid == lo + ((hi - lo) \div 2)
             first_half == MagicAttempt(square, bishop, magic, n, lo, mid, attempt)
         IN  IF first_half.failed THEN first_half
             ELSE MagicAttempt(square, bishop, magic, n, mid, hi, first_half)

\* find_magic when magic is the first number of the random search whose attempt
\* does not fail: the MagicSquare and the attack table extended by used
find_magic(square, bishop, attack_table, magic) ==
    LET mask == MaskOf(square, bishop)
        n == count_ones(mask)
        attempt == MagicAttempt(square, bishop, magic, n, 0, 2 ^ n,
                        [failed |-> FALSE, used |-> [x \in 0..((2 ^ n) - 1) |-> {}]])
    IN  [failed |-> attempt.failed,
         magic_square |-> [index |-> Len(attack_table), mask |-> mask, magic |-> magic, shift |-> n],
         attack_table |-> attack_table \o [k \in 1..(2 ^ n) |-> attempt.used[k - 1]]]

bishop_attack_index(l, square, blocking_mask) ==
    LET magic_square == l.bishop_magics[square]
    IN  magic_square.index + magic_hash(blocking_mask, magic_square.magic, magic_square.shift)

rook_attack_index(l, square, blocking_mask) ==
    LET magic_square == l.rook_magics[square]
    IN  magic_square.index + magic_hash(blocking_mask, magic_square.magic, magic_square.shift)

AttackIndex(l, square, bishop, blocking_mask) ==
    IF bishop THEN bishop_attack_index(l, square, blocking_mask)
    ELSE rook_attack_index(l, square, blocking_mask)

\* sliding_attack_table[index], a Vec indexed from 0; NULL stands for the panic
\* of an index outside the table
TableAt(l, index) ==
    IF index < Len(l.sliding_attack_table) THEN l.sliding_attack_table[index + 1] ELSE NULL

(***************************************************************************)
(* The generator and the lookups as a state machine: find_magic on a few   *)
(* squares, the reference attacks on every square, and lookups in the      *)
(* table generated so far.                                                 *)
(***************************************************************************)
MaxMagics == 2

\* the numbers the random search may arrive at: two that hash a long diagonal
\* perfectly, and 1, which fails wherever a mask has two different attack sets
MagicCandidates == {{9, 17, 25, 33, 41, 49}, {14, 20, 26, 32, 38, 44}, {0}}

\* the squares and the piece kinds find_magic is run for
MagicSquares == {0, 7, 56, 63}
MagicKinds == {TRUE}

\* the blocker sets the reference attacks are computed for
BlockerSets == {{}, {10, 17, 19, 26, 28, 35, 37, 44, 46, 53}, {9, 14, 18, 21, 42, 45, 49, 54}}

\* the occupancies of the lookups on a square: subsets of its mask, alone and
\* with pieces on squares outside the mask
OutsideSquares == {1, 10, 15, 62}

Occupancies(mask) ==
    LET inside == {{}, {first_square(mask)}, mask}
        outside == {{}, inverse(mask)} \cup {{s} : s \in OutsideSquares \ mask}
    IN  {i \cup o : i \in inside, o \in outside}

NoTables == [sliding_attack_table |-> << >>, rook_magics |-> << >>, bishop_magics |-> << >>]

LastLookup == IF lookup = << >> THEN [op |-> "none"] ELSE lookup[1]

InitMagic ==
    /\ GameUnused
    /\ TableUnused
    /\ panicked = FALSE
    /\ params = << >>
    /\ eval = << >>
    /\ luts = NoTables
    /\ lookup = << >>

\* find_magic(square, bishop, &mut sliding_attack_table) and the push of its
\* result; generate_all runs before any lookup
FindMagic ==
    /\ LastLookup.op \in {"none", "find_magic"}
    /\ Cardinality(DOMAIN luts.rook_magics) + Cardinality(DOMAIN luts.bishop_magics) < MaxMagics
    /\ \E square \in MagicSquares, bishop \in MagicKinds, magic \in MagicCandidates :
          LET magics == IF bishop THEN luts.bishop_magics ELSE luts.rook_magics
              found == find_magic(square, bishop, luts.sliding_attack_table, magic)
              pushed == [s \in DOMAIN magics \cup {square} |->
                            IF s = square THEN found.magic_square ELSE magics[s]]
          IN  /\ square \notin DOMAIN magics
              /\ ~found.failed
              /\ luts' = [sliding_attack_table |-> found.attack_table,
                          rook_magics |-> IF bishop THEN luts.rook_magics ELSE pushed,
                          bishop_magics |-> IF bishop THEN pushed ELSE luts.bishop_magics]
              /\ lookup' = <<[op |-> "find_magic", square |-> square, bishop |-> bishop]>>
    /\ UNCHANGED <<gamevars, ttvars, evalvars, panicked>>

\* rook_attacks(square, blocking_mask) or bishop_attacks(square, blocking_mask),
\* called on its own
Attacks ==
    /\ LastLookup.op = "none"
    /\ \E square \in Squares, bishop \in BOOLEAN, blocking_mask \in BlockerSets :
          lookup' = <<[op |-> "attacks", square |-> square, bishop |-> bishop,
                       blocking_mask |-> blocking_mask,
                       result |-> ReferenceAttacks(square, bishop, blocking_mask)]>>
    /\ UNCHANGED <<gamevars, ttvars, evalvars, panicked, luts>>

\* lookup_bishop or lookup_rook on a square whose magic is generated, with two
\* occupancies that agree on the mask of the square
Lookup ==
    /\ LastLookup.op = "find_magic"
    /\ \E bishop \in BOOLEAN :
          LET magics == IF bishop THEN luts.bishop_magics ELSE luts.rook_magics
          IN  \E square \in DOMAIN magics :
                \E occupancy \in Occupancies(magics[square].mask), other \in Occupancies(magics[square].mask) :
                  /\ occupancy \cap magics[square].mask = other \cap magics[square].mask
                  /\ lookup' = <<[op |-> "lookup", square |-> square, bishop |-> bishop,
                                  occupancy |-> occupancy, other |-> other,
                                  index |-> AttackIndex(luts, square, bishop, occupancy),
                                  other_index |-> AttackIndex(luts, square, bishop, other),
                                  result |-> TableAt(luts, AttackIndex(luts, square, bishop, occupancy)),
                                  other_result |-> TableAt(luts, AttackIndex(luts, square, bishop, other))]>>
    /\ UNCHANGED <<gamevars, ttvars, evalvars, panicked, luts>>

NextMagic ==
    \/ FindMagic
    \/ Attacks
    \/ Lookup

SpecMagic == InitMagic /\ [][NextMagic]_vars

\* C26: a sliding lookup depends only on the occupancy bits inside the mask of
\* the square: two occupancies that agree on the mask give the same attack set,
\* and no lookup indexes outside the attack table.
C26_LookupDependsOnMaskOnly ==
    LastLookup.op = "lookup" =>
        /\ LastLookup.index < Len(luts.sliding_attack_table)
        /\ LastLookup.other_index < Len(luts.sliding_attack_table)
        /\ LastLookup.result = LastLookup.other_result

\* the magic of the square find_magic has just been run for
LastMagic ==
    IF LastLookup.bishop THEN luts.bishop_magics[LastLookup.square]
    ELSE luts.rook_magics[LastLookup.square]

\* C28: rook_attacks and bishop_attacks of the generator return exactly the
\* true sliding attack (the squares along each direction up to and including
\* the first blocker or the board edge), and find_magic stores for every
\* blocker subset of the mask its attack set at base_index + hash(subset).
C28_ReferenceAttacksAreTrue ==
    /\ LastLookup.op = "attacks" =>
          LastLookup.result =
              IF LastLookup.bishop
              THEN lookup_bishop(LastLookup.square, LastLookup.blocking_mask)
              ELSE lookup_rook(LastLookup.square, LastLookup.blocking_mask)
    /\ LastLookup.op = "find_magic" =>
          \A subset \in SUBSET LastMagic.mask :
              TableAt(luts, LastMagic.index + magic_hash(subset, LastMagic.magic, LastMagic.shift))
                  = ReferenceAttacks(LastLookup.square, LastLookup.bishop, subset)

(***************************************************************************)
(* Diagonally pinned pawns and the two history stacks, on the positions of *)
(* Spec                                                                    *)
(***************************************************************************)
\* the pawns of the side to move that are pinned along a diagonal, each with
\* the square of its pinner
DiagonallyPinnedPawns(g) ==
    LET ctx == LegalMovesContext(g)
        PawnOn(pinner_square) ==
            lookup_between(ctx.king_square, pinner_square) \cap g.piece_masks[ctx.color][Pawn]
    IN  {<<first_square(PawnOn(pinner_square)), pinner_square>> :
            pinner_square \in {p \in DiagonalPinners(g, ctx) : PawnOn(p) # {}}}

\* C27: a diagonally pinned pawn gets the special moves that stay on the pin
\* ray: legal_moves() returns its en-passant capture when the rules allow it
\* (the target lies on the line from the king to the pinner), and the four
\* promotions when it can capture the pinner on the last rank.
C27_PinnedPawnSpecialMoves ==
    (~panicked /\ LegalPosition(game)) =>
        \A pp \in DiagonallyPinnedPawns(game) :
            \A m \in RulesLegalMoves(game) :
                (/\ m.start = pp[1]
                 /\ \/ m.ep
                    \/ (m.target = pp[2] /\ m.promotion # NoPiece))
                    => \E l \in legal_moves(game) :
                          /\ MoveKey(l) = MoveKey(m)
                          /\ l.en_passent = m.ep

\* C29: position_history and unmove_history have the same length, the number
\* of made moves (normal or null) not yet unmade; set_from_fen leaves both
\* empty; and the last element of position_history is the hash the position
\* had right before the most recent move not yet unmade.
C29_HistoriesInStep ==
    ~panicked =>
        /\ Len(game.position_history) = Len(shadow)
        /\ Len(game.unmove_history) = Len(shadow)
        /\ last_op = "set_from_fen" =>
              (game.position_history = << >> /\ game.unmove_history = << >>)
        /\ shadow # << >> => Last(game.position_history) = Last(shadow).pos.hash

\* a null move and then a move were made and the move was unmade: one entry is
\* left on each stack, the hash from before the null move
C29_Witness ==
    /\ last_op = "unmake_move"
    /\ Len(shadow) = 1
    /\ Last(shadow).null
    /\ Len(game.position_history) = 1
    /\ Len(game.unmove_history) = 1
    /\ Last(game.position_history) # game.hash

====
